---- MODULE Spec2Model ----
(***************************************************************************)
(* Case-log review workflow of the log-book API: the task controller       *)
(* (createTask, updateTask, deleteTask, approveTask, rejectTask) and the   *)
(* submission controller (approveCase, rejectCase, bulkApprove) acting on  *)
(* the logs table.  Every request handler is a sequence of steps, one per  *)
(* awaited storage call, so that concurrent requests interleave exactly at *)
(* the points where the event loop can switch between them.                *)
(***************************************************************************)
EXTENDS Integers, Sequences, FiniteSets, Bags, TLC

\* ------------------------------------------------------------------ bounds
MaxReqs == 3
MaxLogs == 1
MaxAlloc == 3
Procs == {"p1", "p2"}

\* ------------------------------------------------------- nullable columns
NULL == <<>>
Some(x) == <<x>>
IsNull(o) == o = <<>>
Val(o) == o[1]

\* ------------------------------------------------------------------ users
Users == {"L1", "L2", "T1", "T2", "T3", "A1"}
UserRoles == [L1 |-> "LEARNER", L2 |-> "LEARNER", T1 |-> "TEACHER", T2 |-> "TEACHER", T3 |-> "TEACHER", A1 |-> "ADMIN"]
CourseIds == {"c1", "c2"}
LogStatus == {"DRAFT", "SUBMITTED", "APPROVED", "REJECTED", "RESUBMITTED"}
PendingStatuses == {"SUBMITTED", "RESUBMITTED"}

\* ------------------------------------------------------------ identifiers
\* Log ids are generated by the storage layer as cuid(); the n-th generated
\* id is the number n.  UuidIds are well-formed version-4 UUIDs a client may
\* put in a URL; no cuid matches the UUID pattern.
UuidIds == {0}
validateUUID_any(id) == TRUE

validateUUID(id) == id \in UuidIds
cuid(n) == n

\* ---------------------------------------------------------------- strings
\* A request string is modelled by its shape: ws blanks around len other
\* characters.
Str(ws, len) == [ws |-> ws, len |-> len]
length(s) == s.ws + s.len
trim(s) == [ws |-> 0, len |-> s.len]

\* teacherComments?.trim() || null
trimOrNull(o) == IF IsNull(o) \/ length(trim(Val(o))) = 0 THEN NULL ELSE Some(trim(Val(o)))

\* ------------------------------------------------------------ case number
CurrentYear == 2024
LogDates == {[y |-> CurrentYear, late |-> FALSE], [y |-> CurrentYear, late |-> TRUE], [y |-> CurrentYear - 1, late |-> FALSE]}
ThisYear == [y |-> CurrentYear, late |-> FALSE]

RECURSIVE toString(_)
toString(n) == IF n < 10 THEN <<n>> ELSE toString(n \div 10) \o <<n % 10>>

RECURSIVE padStart(_, _, _)
padStart(s, len, fill) == IF Len(s) >= len THEN s ELSE padStart(<<fill>> \o s, len, fill)

FormatCaseNo(year, newIndex) == [year |-> year, idx |-> padStart(toString(newIndex), 3, 0)]

\* date: { gte: new Date(`${currentYear}-01-01`), lte: new Date(`${currentYear}-12-31`) }
\* The upper limit is midnight at the start of 31 December; `late` marks a
\* date after that instant within year y.
DateInCountRange(d, currentYear) == d.y = currentYear /\ ~d.late

VARIABLES users, courses, enrollments, logs, nextId, req, resp, nreq, hist

vars == <<users, courses, enrollments, logs, nextId, req, resp, nreq, hist>>

\* new Date(): the clock advances with every arriving request.
now == nreq

\* Dates of the priority computation are counted in half days from the
\* start of the clock: (1000 * 60 * 60 * 24) ms are UnitsPerDay units.
UnitsPerDay == 2
DueFar == 8 * UnitsPerDay
\* Math.ceil(a / b) for b > 0
MathCeilDiv(a, b) == 0 - ((0 - a) \div b)

Idle == [op |-> "none", stage |-> "idle"]
NoResp == [op |-> "none", code |-> 0, msg |-> "", ids |-> {}]

\* prisma.log.count({where: {courseId, date: {gte, lte}}})
CountLogs(courseId, currentYear) == Cardinality({i \in DOMAIN logs : logs[i].courseId = courseId /\ DateInCountRange(logs[i].date, currentYear)})

\* res.status(code).json(...): the handler returns and the request ends.
Reply(p, op, actor, code, msg, ids) ==
    /\ resp' = [op |-> op, code |-> code, msg |-> msg, ids |-> ids]
    /\ req' = [req EXCEPT ![p] = Idle]

\* task.controller.ts handlePrismaError
handlePrismaError(code) == CASE code = "P2002" -> [status |-> 409, message |-> "A record with this data already exists"]
                             [] code = "P2025" -> [status |-> 404, message |-> "Record not found"]
                             [] code = "P2003" -> [status |-> 400, message |-> "Foreign key constraint failed"]
                             [] code = "P2014" -> [status |-> 400, message |-> "Invalid ID provided"]
                             [] OTHER -> [status |-> 500, message |-> "Database error occurred"]

\* SubmissionController.handleError: a known storage error answers 400
handleError(name) == CASE name = "ValidationError" -> [status |-> 400, message |-> "VALIDATION_ERROR"]
                       [] name = "NotFoundError" -> [status |-> 404, message |-> "NOT_FOUND"]
                       [] name = "UnauthorizedError" -> [status |-> 403, message |-> "UNAUTHORIZED"]
                       [] name = "PrismaClientKnownRequestError" -> [status |-> 400, message |-> "DATABASE_ERROR"]
                       [] name = "PrismaClientValidationError" -> [status |-> 400, message |-> "VALIDATION_ERROR"]
                       [] OTHER -> [status |-> 500, message |-> "INTERNAL_ERROR"]

Init == /\ users = UserRoles
        /\ courses = [c \in CourseIds |-> IF c = "c1" THEN [teacherId |-> "T1", courseTeachers |-> {"T2"}, endDate |-> Some(DueFar)] ELSE [teacherId |-> "T3", courseTeachers |-> {}, endDate |-> Some(DueFar)]]
        /\ enrollments = SetToBag({<<"c1", "L1">>, <<"c2", "L1">>})
        /\ logs = <<>>
        /\ nextId = 1
        /\ req = [p \in Procs |-> Idle]
        /\ resp = NoResp
        /\ nreq = 0
        /\ hist = <<>>

\* ------------------------------------------------------------- createTask
createTaskSchemaOk(body) == body.valid /\ body.status \in {NULL, Some("DRAFT"), Some("SUBMITTED")}

InvalidBody == [valid |-> FALSE]
CreateBodies(statuses, courseIds, dates) == [valid : {TRUE}, status : statuses, courseId : courseIds, date : dates, content : {0}] \cup {InvalidBody}

isEnrolled_any(courseId, learnerId) == TRUE

\* prisma.courseEnrollment.findFirst({where: {courseId, learnerId}})
isEnrolled(courseId, learnerId) == BagIn(<<courseId, learnerId>>, enrollments)

\* What createTask answers before it allocates a case number: an error
\* reply, or "count" when the handler goes on to generateCaseNo.
createTaskCheck(userId, body) ==
    IF ~createTaskSchemaOk(body) THEN [status |-> 400, message |-> "Validation failed"]
    ELSE IF users[userId] # "LEARNER" THEN [status |-> 403, message |-> "Only learners can create tasks"]
    ELSE IF ~isEnrolled(body.courseId, userId) THEN [status |-> 403, message |-> "You are not enrolled in this course"]
    ELSE [status |-> 0, message |-> "count"]

\* Steps 1-4: body validation, role check, enrollment lookup.
CreateTaskBegin(p, actors, bodies, cap) ==
    /\ req[p].stage = "idle"
    /\ nreq < MaxReqs
    /\ nextId <= cap
    /\ nreq' = nreq + 1
    /\ \E actor \in actors, body \in bodies :
          IF createTaskCheck(actor, body).status # 0
          THEN Reply(p, "createTask", actor, createTaskCheck(actor, body).status, createTaskCheck(actor, body).message, {})
          ELSE /\ req' = [req EXCEPT ![p] = [op |-> "createTask", stage |-> "count", actor |-> actor, body |-> body, seenNext |-> nextId]]
               /\ UNCHANGED resp
    /\ UNCHANGED <<users, courses, enrollments, logs, nextId, hist>>

\* generateCaseNo: count the course's logs dated in the current year.
generateCaseNo(courseId) == LET currentYear == CurrentYear
                                count == CountLogs(courseId, currentYear)
                                newIndex == count + 1
                            IN FormatCaseNo(currentYear, newIndex)

GenerateCaseNo(p) ==
    /\ req[p].op = "createTask" /\ req[p].stage = "count"
    /\ req' = [req EXCEPT ![p] = [op |-> "createTask", stage |-> "lookup", actor |-> req[p].actor, body |-> req[p].body, seenNext |-> req[p].seenNext,
                                  caseNo |-> generateCaseNo(req[p].body.courseId)]]
    /\ UNCHANGED <<users, courses, enrollments, logs, nextId, resp, nreq, hist>>

\* prisma.log.findUnique({where: {caseNo}})
findUniqueByCaseNo(caseNo) == {i \in DOMAIN logs : logs[i].caseNo = caseNo}

taskData_alwaysStamped(caseNo, body, userId, t) ==
    [caseNo |-> caseNo, date |-> body.date, content |-> body.content,
     status |-> IF IsNull(body.status) THEN "DRAFT" ELSE Val(body.status),
     courseId |-> body.courseId, createdById |-> userId, submittedAt |-> Some(t),
     rejectionReason |-> NULL, teacherComments |-> NULL, approvedAt |-> NULL, rejectedAt |-> NULL,
     approvedById |-> NULL, rejectedByID |-> NULL]

\* "Build task data safely"
taskData(caseNo, body, userId, t) ==
    [caseNo |-> caseNo, date |-> body.date, content |-> body.content,
     status |-> IF IsNull(body.status) THEN "DRAFT" ELSE Val(body.status),
     courseId |-> body.courseId, createdById |-> userId,
     submittedAt |-> IF body.status = Some("SUBMITTED") THEN Some(t) ELSE NULL,
     rejectionReason |-> NULL, teacherComments |-> NULL, approvedAt |-> NULL, rejectedAt |-> NULL,
     approvedById |-> NULL, rejectedByID |-> NULL]

\* Step 5: duplicate lookup by caseNo; step 6 builds the row (submittedAt is
\* stamped here, before the insert is issued).
CreateTaskLookup(p) ==
    /\ req[p].op = "createTask" /\ req[p].stage = "lookup"
    /\ IF findUniqueByCaseNo(req[p].caseNo) # {}
       THEN Reply(p, "createTask", req[p].actor, 409, "Case number already exists", {})
       ELSE /\ req' = [req EXCEPT ![p] = [op |-> "createTask", stage |-> "insert", actor |-> req[p].actor, seenNext |-> req[p].seenNext, body |-> req[p].body,
                                          taskData |-> taskData(req[p].caseNo, req[p].body, req[p].actor, now)]]
            /\ UNCHANGED resp
    /\ UNCHANGED <<users, courses, enrollments, logs, nextId, nreq, hist>>

caseNoUniqueViolation_none(caseNo) == FALSE

\* caseNo String @unique: the index refuses a second row with the same value
caseNoUniqueViolation(caseNo) == \E i \in DOMAIN logs : logs[i].caseNo = caseNo

\* Step 7: prisma.log.create; a duplicate caseNo raises P2002.
CreateTaskInsert(p) ==
    /\ req[p].op = "createTask" /\ req[p].stage = "insert"
    /\ IF caseNoUniqueViolation(req[p].taskData.caseNo)
       THEN /\ Reply(p, "createTask", req[p].actor, handlePrismaError("P2002").status, handlePrismaError("P2002").message, {})
            /\ UNCHANGED <<logs, nextId, hist>>
       ELSE /\ logs' = (cuid(nextId) :> req[p].taskData) @@ logs
            /\ hist' = (cuid(nextId) :> <<[op |-> "create:" \o req[p].taskData.status, by |-> req[p].actor]>>) @@ hist
            /\ nextId' = nextId + 1
            /\ Reply(p, "createTask", req[p].actor, 201, "Task created successfully", {cuid(nextId)})
    /\ UNCHANGED <<users, courses, enrollments, nreq>>

\* ------------------------------------------------ the pending statement
\* A handler that has passed its checks holds a storage statement:
\* prisma.log.update({where: {id}, data}).  stamp names the columns set to
\* new Date() inside a $transaction callback, which runs when the statement
\* is issued.  seen is the number of writes the row had when it was read.
UpdateStmt(op, actor, id, body, data, stamp, onP2025) ==
    [op |-> op, stage |-> "write", kind |-> "update", actor |-> actor, ids |-> {id}, body |-> body, data |-> data, stamp |-> stamp,
     onP2025 |-> onP2025, seen |-> Len(hist[id])]

\* ------------------------------------------------------------- updateTask
updateTaskSchemaOk(body) == body.valid /\ body.status \in {NULL, Some("DRAFT"), Some("SUBMITTED"), Some("RESUBMITTED")}

UpdateBodies(statuses, contents, courseIds, dates) == [valid : {TRUE}, status : statuses, content : contents, courseId : courseIds, date : dates] \cup {InvalidBody}

updateTaskBlocked_never(existingTask) == FALSE

\* "Can't update approved tasks"
updateTaskBlocked(existingTask) == existingTask.status = "APPROVED"

Field(name, o) == IF IsNull(o) THEN <<>> ELSE name :> Val(o)

\* "Handle status changes": an absent status differs from every stored
\* status, and assigning undefined leaves the column alone.
updateStatusData(existingTask, body, t) ==
    IF body.status # Some(existingTask.status)
    THEN Field("status", body.status) @@
         (CASE body.status = Some("SUBMITTED") -> "submittedAt" :> Some(t)
            [] body.status = Some("RESUBMITTED") -> ("submittedAt" :> Some(t)) @@ ("rejectionReason" :> NULL)
            [] body.status = Some("DRAFT") -> "submittedAt" :> NULL
            [] OTHER -> <<>>)
    ELSE <<>>

updateTaskSchemaKeys_passthrough == {"date", "content", "status", "courseId", "caseNo"}

\* The keys of updateTaskSchema (createTaskSchema.partial() with status
\* extended); the clinical text columns are modelled by content.
updateTaskSchemaKeys == {"date", "content", "status", "courseId"}

\* updateTaskSchema.parse(req.body)[key]: a z.object drops the keys it does
\* not declare, and an absent key reads as undefined.
validatedData(body, key) == IF key \in updateTaskSchemaKeys /\ key \in DOMAIN body THEN body[key] ELSE NULL

\* "Check case number uniqueness if changed"
duplicateCase(existingTask, body) ==
    /\ ~IsNull(validatedData(body, "caseNo"))
    /\ Val(validatedData(body, "caseNo")) # existingTask.caseNo
    /\ findUniqueByCaseNo(Val(validatedData(body, "caseNo"))) # {}

\* "Only update provided fields"
updateData(existingTask, body, t) ==
    Field("caseNo", validatedData(body, "caseNo")) @@
    Field("date", body.date) @@ Field("content", body.content) @@ Field("courseId", body.courseId) @@ updateStatusData(existingTask, body, t)

\* What updateTask answers to userId asking to update log id with body: an
\* error reply, or "write" when the handler goes on to its update.
updateTaskCheck(userId, id, body) ==
    IF ~updateTaskSchemaOk(body) THEN [status |-> 400, message |-> "Validation failed"]
    ELSE IF id \notin DOMAIN logs THEN [status |-> 404, message |-> "Task not found"]
    ELSE IF logs[id].createdById # userId THEN [status |-> 403, message |-> "Access denied"]
    ELSE IF updateTaskBlocked(logs[id]) THEN [status |-> 400, message |-> "Cannot update approved tasks"]
    ELSE IF duplicateCase(logs[id], body) THEN [status |-> 409, message |-> "Case number already exists"]
    ELSE [status |-> 0, message |-> "write"]

UpdateTaskBegin(p, actors, ids, bodies) ==
    /\ req[p].stage = "idle"
    /\ nreq < MaxReqs
    /\ nreq' = nreq + 1
    /\ \E actor \in actors, id \in ids, body \in bodies :
          IF updateTaskCheck(actor, id, body).status # 0
          THEN Reply(p, "updateTask", actor, updateTaskCheck(actor, id, body).status, updateTaskCheck(actor, id, body).message, {id})
          ELSE /\ req' = [req EXCEPT ![p] = UpdateStmt("updateTask", actor, id, body, updateData(logs[id], body, now), {}, handlePrismaError("P2025"))]
               /\ UNCHANGED resp
    /\ UNCHANGED <<users, courses, enrollments, logs, nextId, hist>>

\* ------------------------------------------------------------- deleteTask
\* "Can only delete draft tasks"
deleteTaskBlocked(log) == log.status # "DRAFT"

\* What deleteTask answers to userId asking to delete log id.
deleteTaskCheck(userId, id) ==
    IF ~validateUUID(id) THEN [status |-> 400, message |-> "Invalid log ID format"]
    ELSE IF id \notin DOMAIN logs THEN [status |-> 404, message |-> "Task not found"]
    ELSE IF logs[id].createdById # userId THEN [status |-> 403, message |-> "Access denied"]
    ELSE IF deleteTaskBlocked(logs[id]) THEN [status |-> 400, message |-> "Can only delete draft tasks"]
    ELSE [status |-> 0, message |-> "write"]

DeleteTaskBegin(p, actors, ids) ==
    /\ req[p].stage = "idle"
    /\ nreq < MaxReqs
    /\ nreq' = nreq + 1
    /\ \E actor \in actors, id \in ids :
          IF deleteTaskCheck(actor, id).status # 0
          THEN Reply(p, "deleteTask", actor, deleteTaskCheck(actor, id).status, deleteTaskCheck(actor, id).message, {id})
          ELSE /\ req' = [req EXCEPT ![p] = [op |-> "deleteTask", stage |-> "write", kind |-> "delete", actor |-> actor, ids |-> {id},
                                             onP2025 |-> handlePrismaError("P2025"), seen |-> Len(hist[id])]]
               /\ UNCHANGED resp
    /\ UNCHANGED <<users, courses, enrollments, logs, nextId, hist>>

\* ------------------------------------------------ approveTask, rejectTask
\* "Check if user is teacher of the course"
isCourseTeacher(log, userId) == courses[log.courseId].teacherId = userId

\* "Can only approve submitted/resubmitted tasks"
reviewable(log) == log.status \in PendingStatuses

approveTaskData(userId, t) == [status |-> "APPROVED", approvedById |-> Some(userId), approvedAt |-> Some(t), rejectionReason |-> NULL]

\* What approveTask answers to userId asking for log id: an error reply, or
\* "write" when the handler goes on to its update.
approveTaskCheck(userId, id) ==
    IF ~validateUUID(id) THEN [status |-> 400, message |-> "Invalid log ID format"]
    ELSE IF id \notin DOMAIN logs THEN [status |-> 404, message |-> "Task not found"]
    ELSE IF ~isCourseTeacher(logs[id], userId) THEN [status |-> 403, message |-> "Only course teacher can approve tasks"]
    ELSE IF ~reviewable(logs[id]) THEN [status |-> 400, message |-> "Can only approve submitted or resubmitted tasks"]
    ELSE [status |-> 0, message |-> "write"]

ApproveTaskBegin(p, actors, ids) ==
    /\ req[p].stage = "idle"
    /\ nreq < MaxReqs
    /\ nreq' = nreq + 1
    /\ \E actor \in actors, id \in ids :
          IF approveTaskCheck(actor, id).status # 0
          THEN Reply(p, "approveTask", actor, approveTaskCheck(actor, id).status, approveTaskCheck(actor, id).message, {id})
          ELSE /\ req' = [req EXCEPT ![p] = UpdateStmt("approveTask", actor, id, [comments |-> NULL], approveTaskData(actor, now), {}, handlePrismaError("P2025"))]
               /\ UNCHANGED resp
    /\ UNCHANGED <<users, courses, enrollments, logs, nextId, hist>>

\* rejectionReason: z.string().min(1).max(1000), on the string as sent
rejectTaskSchemaOk(reason) == ~IsNull(reason) /\ length(Val(reason)) >= 1 /\ length(Val(reason)) <= 1000

rejectTaskData(userId, rejectionReason, t) ==
    [status |-> "REJECTED", rejectionReason |-> Some(trim(Val(rejectionReason))), rejectedAt |-> Some(t), approvedById |-> Some(userId)]

rejectTaskCheck(userId, id, rejectionReason) ==
    IF ~validateUUID(id) THEN [status |-> 400, message |-> "Invalid log ID format"]
    ELSE IF ~rejectTaskSchemaOk(rejectionReason) THEN [status |-> 400, message |-> "Validation failed"]
    ELSE IF id \notin DOMAIN logs THEN [status |-> 404, message |-> "Task not found"]
    ELSE IF ~isCourseTeacher(logs[id], userId) THEN [status |-> 403, message |-> "Only course teacher can reject tasks"]
    ELSE IF ~reviewable(logs[id]) THEN [status |-> 400, message |-> "Can only reject submitted or resubmitted tasks"]
    ELSE [status |-> 0, message |-> "write"]

RejectTaskBegin(p, actors, ids, reasons) ==
    /\ req[p].stage = "idle"
    /\ nreq < MaxReqs
    /\ nreq' = nreq + 1
    /\ \E actor \in actors, id \in ids, rejectionReason \in reasons :
          IF rejectTaskCheck(actor, id, rejectionReason).status # 0
          THEN Reply(p, "rejectTask", actor, rejectTaskCheck(actor, id, rejectionReason).status, rejectTaskCheck(actor, id, rejectionReason).message, {id})
          ELSE /\ req' = [req EXCEPT ![p] = UpdateStmt("rejectTask", actor, id, [rejectionReason |-> rejectionReason],
                                                       rejectTaskData(actor, rejectionReason, now), {}, handlePrismaError("P2025"))]
               /\ UNCHANGED resp
    /\ UNCHANGED <<users, courses, enrollments, logs, nextId, hist>>

\* ------------------------------------ approveCase, rejectCase, bulkApprove
\* findFirst({where: {id, course: {teacherId}, status: "SUBMITTED"}})
findSubmission(id, teacherId) == {i \in DOMAIN logs : i = id /\ courses[logs[i].courseId].teacherId = teacherId /\ logs[i].status = "SUBMITTED"}

approveCaseData_unattributed(teacherId, teacherComments) ==
    [status |-> "APPROVED", approvedById |-> NULL, teacherComments |-> trimOrNull(teacherComments)]

approveCaseData(teacherId, teacherComments) ==
    [status |-> "APPROVED", approvedById |-> Some(teacherId), teacherComments |-> trimOrNull(teacherComments)]

approveCaseCheck(teacherId, id) ==
    IF findSubmission(id, teacherId) = {} THEN handleError("NotFoundError") ELSE [status |-> 0, message |-> "write"]

ApproveCaseBegin(p, actors, ids, comments) ==
    /\ req[p].stage = "idle"
    /\ nreq < MaxReqs
    /\ nreq' = nreq + 1
    /\ \E teacherId \in actors, id \in ids, teacherComments \in comments :
          IF approveCaseCheck(teacherId, id).status # 0
          THEN Reply(p, "approveCase", teacherId, approveCaseCheck(teacherId, id).status, approveCaseCheck(teacherId, id).message, {id})
          ELSE /\ req' = [req EXCEPT ![p] = UpdateStmt("approveCase", teacherId, id, [teacherComments |-> teacherComments],
                                                       approveCaseData(teacherId, teacherComments), {"approvedAt"}, handleError("PrismaClientKnownRequestError"))]
               /\ UNCHANGED resp
    /\ UNCHANGED <<users, courses, enrollments, logs, nextId, hist>>

\* "Validate rejection reason": required, not blank, at most 1000 characters
\* after trimming
rejectCaseReasonOk(reason) == ~IsNull(reason) /\ length(Val(reason)) # 0 /\ length(trim(Val(reason))) # 0 /\ length(trim(Val(reason))) <= 1000

rejectCaseData(rejectionReason, teacherComments) ==
    [status |-> "REJECTED", rejectionReason |-> Some(trim(Val(rejectionReason))), teacherComments |-> trimOrNull(teacherComments)]

rejectCaseCheck(teacherId, id, rejectionReason) ==
    IF ~rejectCaseReasonOk(rejectionReason) THEN handleError("ValidationError")
    ELSE IF findSubmission(id, teacherId) = {} THEN handleError("NotFoundError")
    ELSE [status |-> 0, message |-> "write"]

RejectCaseBegin(p, actors, ids, reasons, comments) ==
    /\ req[p].stage = "idle"
    /\ nreq < MaxReqs
    /\ nreq' = nreq + 1
    /\ \E teacherId \in actors, id \in ids, rejectionReason \in reasons, teacherComments \in comments :
          IF rejectCaseCheck(teacherId, id, rejectionReason).status # 0
          THEN Reply(p, "rejectCase", teacherId, rejectCaseCheck(teacherId, id, rejectionReason).status, rejectCaseCheck(teacherId, id, rejectionReason).message, {id})
          ELSE /\ req' = [req EXCEPT ![p] = UpdateStmt("rejectCase", teacherId, id, [rejectionReason |-> rejectionReason, teacherComments |-> teacherComments],
                                                       rejectCaseData(rejectionReason, teacherComments), {"rejectedAt"}, handleError("PrismaClientKnownRequestError"))]
               /\ UNCHANGED resp
    /\ UNCHANGED <<users, courses, enrollments, logs, nextId, hist>>

\* findMany({where: {id: {in: validIds}, course: {teacherId}, status: "SUBMITTED"}})
validCases(validIds, teacherId) == {i \in DOMAIN logs : i \in validIds /\ courses[logs[i].courseId].teacherId = teacherId /\ logs[i].status = "SUBMITTED"}

\* updateMany({where: {id: {in: validIds}}, ...}): the rows the batch writes
bulkWhere(validIds) == {i \in DOMAIN logs : i \in validIds}

\* caseIds is the array of the request body; a set of ids stands for the
\* array that lists each of them once.
Range(seq) == {seq[k] : k \in DOMAIN seq}
RECURSIVE AsList(_)
AsList(ids) == IF ids = {} THEN <<>> ELSE LET m == CHOOSE x \in ids : \A y \in ids : x <= y IN <<m>> \o AsList(ids \ {m})

\* "Cannot approve more than 50 cases at once"
MaxBulk == 50

bulkApproveListCheck_partial(teacherId, caseIds) ==
    IF Len(caseIds) = 0 THEN handleError("ValidationError")
    ELSE IF Len(caseIds) > MaxBulk THEN handleError("ValidationError")
    ELSE IF validCases(Range(caseIds), teacherId) = {} THEN handleError("NotFoundError")
    ELSE [status |-> 0, message |-> "write"]

\* The checks before the updateMany: validCases.length is a number of rows,
\* validIds.length a number of array entries.
bulkApproveListCheck(teacherId, caseIds) ==
    IF Len(caseIds) = 0 THEN handleError("ValidationError")
    ELSE IF Len(caseIds) > MaxBulk THEN handleError("ValidationError")
    ELSE IF validCases(Range(caseIds), teacherId) = {} THEN handleError("NotFoundError")
    ELSE IF Cardinality(validCases(Range(caseIds), teacherId)) # Len(caseIds) THEN handleError("ValidationError")
    ELSE [status |-> 0, message |-> "write"]

bulkApproveCheck(teacherId, caseIds) == bulkApproveListCheck(teacherId, AsList(caseIds))

\* result.count of the updateMany
approvedCount(validIds) == Cardinality(bulkWhere(validIds))

BulkApproveBegin(p, actors, idLists, comments) ==
    /\ req[p].stage = "idle"
    /\ nreq < MaxReqs
    /\ nreq' = nreq + 1
    /\ \E teacherId \in actors, caseIds \in idLists, teacherComments \in comments :
          IF bulkApproveListCheck(teacherId, caseIds).status # 0
          THEN Reply(p, "bulkApprove", teacherId, bulkApproveListCheck(teacherId, caseIds).status, bulkApproveListCheck(teacherId, caseIds).message, Range(caseIds))
          ELSE /\ req' = [req EXCEPT ![p] = [op |-> "bulkApprove", stage |-> "write", kind |-> "updateMany", actor |-> teacherId, ids |-> Range(caseIds),
                                             body |-> [teacherComments |-> teacherComments],
                                             data |-> approveCaseData(teacherId, teacherComments), stamp |-> {"approvedAt"},
                                             seen |-> [i \in Range(caseIds) |-> Len(hist[i])], requestedCount |-> Len(caseIds)]]
               /\ UNCHANGED resp
    /\ UNCHANGED <<users, courses, enrollments, logs, nextId, hist>>

\* ------------------------------------------------- the storage statement
Stamp(fields, t) == [f \in fields |-> Some(t)]

\* The row after an update statement: columns named in data (or stamped) are
\* overwritten, the others keep their values.
applyUpdate(row, data, stamp, t) == Stamp(stamp, t) @@ data @@ row

HistTag(r) == [op |-> IF r.op = "updateTask" /\ "status" \in DOMAIN r.data THEN "update:" \o r.data.status ELSE r.op, by |-> r.actor]

writeSucceeded_asP2025(r) == r.onP2025

\* The statement returned: the handler goes on to res.json({success: true})
writeSucceeded(r) == [status |-> 200, message |-> "ok"]

\* prisma.log.update / updateMany / delete: the statement is applied to the
\* rows its where-clause selects at the time it runs.
PrismaLogWrite(p) ==
    /\ req[p].stage = "write"
    /\ LET r == req[p]
           id == CHOOSE i \in r.ids : TRUE
       IN CASE r.kind = "update" ->
                 IF id \notin DOMAIN logs
                 THEN /\ Reply(p, r.op, r.actor, r.onP2025.status, r.onP2025.message, r.ids)
                      /\ UNCHANGED <<logs, hist>>
                 ELSE /\ logs' = [logs EXCEPT ![id] = applyUpdate(@, r.data, r.stamp, now)]
                      /\ hist' = [hist EXCEPT ![id] = Append(@, HistTag(r))]
                      /\ Reply(p, r.op, r.actor, writeSucceeded(r).status, writeSucceeded(r).message, r.ids)
            [] r.kind = "updateMany" ->
                 /\ logs' = [i \in DOMAIN logs |-> IF i \in bulkWhere(r.ids) THEN applyUpdate(logs[i], r.data, r.stamp, now) ELSE logs[i]]
                 /\ hist' = [i \in DOMAIN hist |-> IF i \in bulkWhere(r.ids) THEN Append(hist[i], HistTag(r)) ELSE hist[i]]
                 /\ Reply(p, r.op, r.actor, writeSucceeded(r).status, writeSucceeded(r).message, r.ids)
            [] r.kind = "delete" ->
                 IF id \notin DOMAIN logs
                 THEN /\ Reply(p, r.op, r.actor, r.onP2025.status, r.onP2025.message, r.ids)
                      /\ UNCHANGED <<logs, hist>>
                 ELSE /\ logs' = [i \in DOMAIN logs \ {id} |-> logs[i]]
                      /\ hist' = [i \in DOMAIN hist \ {id} |-> hist[i]]
                      /\ Reply(p, r.op, r.actor, writeSucceeded(r).status, writeSucceeded(r).message, r.ids)
    /\ UNCHANGED <<users, courses, enrollments, nextId, nreq>>

\* --------------------------------------------------------- review workflow
Learners == {"L1", "L2"}
Reviewers == {"T1", "T2"}
RequestIds == 0 .. MaxLogs
WorkflowCreateBodies == CreateBodies({NULL, Some("DRAFT"), Some("SUBMITTED"), Some("APPROVED")}, {"c1"}, {ThisYear})
WorkflowUpdateBodies == UpdateBodies({NULL, Some("DRAFT"), Some("SUBMITTED"), Some("RESUBMITTED"), Some("APPROVED")}, {NULL, Some(1)}, {NULL}, {NULL})
ReasonInputs == {NULL, Some(Str(1, 10))}
ValidRejection == Some(Str(0, 10))
CommentInputs == {NULL, Some(Str(1, 1))}
IdSetInputs == {AsList(ids) : ids \in SUBSET (1 .. MaxLogs)}

Next == \E p \in Procs : \/ CreateTaskBegin(p, Learners, WorkflowCreateBodies, MaxLogs)
                         \/ GenerateCaseNo(p)
                         \/ CreateTaskLookup(p)
                         \/ CreateTaskInsert(p)
                         \/ UpdateTaskBegin(p, {"L1", "T1", "A1"}, RequestIds, WorkflowUpdateBodies)
                         \/ DeleteTaskBegin(p, {"L1", "T1", "A1"}, RequestIds)
                         \/ ApproveTaskBegin(p, Reviewers, RequestIds)
                         \/ RejectTaskBegin(p, Reviewers, RequestIds, ReasonInputs)
                         \/ ApproveCaseBegin(p, Reviewers, RequestIds, CommentInputs)
                         \/ RejectCaseBegin(p, Reviewers, RequestIds, ReasonInputs, CommentInputs)
                         \/ BulkApproveBegin(p, Reviewers, IdSetInputs, CommentInputs)
                         \/ PrismaLogWrite(p)

Spec == Init /\ [][Next]_vars

\* ------------------------------------------------- rejection validation
AllReasonInputs == {NULL, Some(Str(0, 0)), Some(Str(1, 0)), Some(Str(0, 9)), Some(Str(0, 10)), Some(Str(1, 10)), Some(Str(0, 1000)), Some(Str(1, 1000)), Some(Str(0, 1001))}
AllCommentInputs == {NULL, Some(Str(1, 0)), Some(Str(1, 1))}

NextReject == \E p \in Procs : \/ CreateTaskBegin(p, {"L1"}, CreateBodies({Some("SUBMITTED")}, {"c1"}, {ThisYear}), MaxLogs)
                                \/ GenerateCaseNo(p)
                                \/ CreateTaskLookup(p)
                                \/ CreateTaskInsert(p)
                                \/ RejectTaskBegin(p, {"T1"}, RequestIds, AllReasonInputs)
                                \/ RejectCaseBegin(p, {"T1"}, RequestIds, AllReasonInputs, AllCommentInputs)
                                \/ PrismaLogWrite(p)

SpecReject == Init /\ [][NextReject]_vars

\* ---------------------------------------------- case-number allocation
AllocBodies == CreateBodies({Some("DRAFT")}, CourseIds, LogDates)

NextCreate == \E p \in Procs : \/ CreateTaskBegin(p, {"L1", "L2", "T1"}, AllocBodies, MaxAlloc)
                                \/ GenerateCaseNo(p)
                                \/ CreateTaskLookup(p)
                                \/ CreateTaskInsert(p)

SpecCreate == Init /\ [][NextCreate]_vars

\* ------------------------------------------------------------ enrollment
\* The course_enrollments table is a bag of (courseId, learnerId) rows.
\* @@unique([courseId, learnerId]): the index refuses a second row for a pair
enrollmentUniqueViolation(courseId, learnerId) == BagIn(<<courseId, learnerId>>, enrollments)

\* "Determine actual learner ID"
actualLearnerId(userId, learnerId) == IF users[userId] = "ADMIN" /\ ~IsNull(learnerId) THEN Val(learnerId) ELSE userId

\* What enrollInCourse answers before its create: an error reply, or
\* "enroll" when the handler goes on to courseEnrollment.create.
enrollInCourseCheck(userId, courseId, learnerId) ==
    IF users[userId] = "TEACHER" THEN [status |-> 403, message |-> "Teachers cannot enroll in courses"]
    ELSE IF courseId \notin DOMAIN courses THEN [status |-> 404, message |-> "Course not found"]
    ELSE IF isEnrolled(courseId, actualLearnerId(userId, learnerId)) THEN [status |-> 400, message |-> "Already enrolled in this course"]
    ELSE IF users[userId] = "ADMIN" /\ ~IsNull(learnerId) /\ (Val(learnerId) \notin DOMAIN users \/ users[Val(learnerId)] # "LEARNER")
         THEN [status |-> 400, message |-> "Invalid learner ID"]
    ELSE [status |-> 0, message |-> "enroll"]

EnrollInCourseBegin(p, actors, courseIds, learnerIds) ==
    /\ req[p].stage = "idle"
    /\ nreq < MaxReqs
    /\ nreq' = nreq + 1
    /\ \E userId \in actors, courseId \in courseIds, learnerId \in learnerIds :
          LET pair == <<courseId, actualLearnerId(userId, learnerId)>>
              check == enrollInCourseCheck(userId, courseId, learnerId)
          IN IF check.status # 0
             THEN Reply(p, "enrollInCourse", userId, check.status, check.message, {pair})
             ELSE /\ req' = [req EXCEPT ![p] = [op |-> "enrollInCourse", stage |-> "enroll", actor |-> userId, pair |-> pair]]
                  /\ UNCHANGED resp
    /\ UNCHANGED <<users, courses, enrollments, logs, nextId, hist>>

\* prisma.courseEnrollment.create; a refused insert is caught by the
\* handler's catch-all and answered 500.
EnrollInCourseCreate(p) ==
    /\ req[p].op = "enrollInCourse" /\ req[p].stage = "enroll"
    /\ IF enrollmentUniqueViolation(req[p].pair[1], req[p].pair[2])
       THEN /\ Reply(p, "enrollInCourse", req[p].actor, 500, "Failed to enroll in course", {req[p].pair})
            /\ UNCHANGED enrollments
       ELSE /\ enrollments' = enrollments (+) SetToBag({req[p].pair})
            /\ Reply(p, "enrollInCourse", req[p].actor, 201, "Successfully enrolled in course", {req[p].pair})
    /\ UNCHANGED <<users, courses, logs, nextId, nreq, hist>>

\* ------------------------------------------------------------ roster sync
\* getEnrolledCourses fetches the user's roster upstream and hands it to
\* syncCoursesWithLocalDB.  An upstream course is [id, trainers]: its id is
\* the local course's moodleId (unique), by which findFirst matches it, and
\* trainers are the users its expedite_course_trainers names by email.
Entry(id, trainers) == [id |-> id, trainers |-> trainers]

\* "Process trainers data": a trainer not yet a user is created as TEACHER,
\* one with another role is updated to TEACHER
syncTrainers(us, trainers) == [u \in DOMAIN us \cup Range(trainers) |-> IF u \in Range(trainers) THEN "TEACHER" ELSE us[u]]

\* teacherIds[0] || fallback
firstTeacherOr(teacherIds, fallback) == IF teacherIds = <<>> THEN fallback ELSE teacherIds[1]

\* prisma.course.create of the sync, with its courseTeacher.create calls
syncNewCourse(entry, userId) == [teacherId |-> firstTeacherOr(entry.trainers, userId), courseTeachers |-> Range(entry.trainers), endDate |-> Some(DueFar)]

\* prisma.course.update of the sync
syncUpdatedCourse(existingCourse, entry) == [existingCourse EXCEPT !.teacherId = firstTeacherOr(entry.trainers, existingCourse.teacherId)]

\* "Update teacher associations": findFirst selected no teachers (the
\* include is commented out), so existingCourse.teachers.map throws
syncUpdateThrows(entry) == entry.trainers # <<>>

\* One pass of the loop body up to the enrollment lookup, on the tables
\* st = [users, courses, enrollments]: the tables after it and how it ended
\* ("created": new course with its enrollment, "throw": the sync is
\* abandoned, "enroll": the existing course's enrollment is looked up next).
syncCourseStep(st, userId, entry) ==
    LET us == syncTrainers(st.users, entry.trainers)
    IN IF entry.id \notin DOMAIN st.courses
       THEN [users |-> us, courses |-> (entry.id :> syncNewCourse(entry, userId)) @@ st.courses,
             enrollments |-> st.enrollments (+) SetToBag({<<entry.id, userId>>}), outcome |-> "created"]
       ELSE [users |-> us, courses |-> [st.courses EXCEPT ![entry.id] = syncUpdatedCourse(st.courses[entry.id], entry)],
             enrollments |-> st.enrollments, outcome |-> IF syncUpdateThrows(entry) THEN "throw" ELSE "enroll"]

\* "Check if enrollment exists" and the create that follows it
syncEnrollment(es, userId, entry) == IF BagIn(<<entry.id, userId>>, es) THEN es ELSE es (+) SetToBag({<<entry.id, userId>>})

\* A whole run of syncCoursesWithLocalDB with no other request in between:
\* the loop over the roster, left by the catch when a pass throws.
RECURSIVE syncCoursesWithLocalDB(_, _, _)
syncCoursesWithLocalDB(st, userId, moodleCourses) ==
    IF moodleCourses = <<>> THEN st
    ELSE LET r == syncCourseStep(st, userId, Head(moodleCourses))
             t == [users |-> r.users, courses |-> r.courses,
                   enrollments |-> IF r.outcome = "enroll" THEN syncEnrollment(r.enrollments, userId, Head(moodleCourses)) ELSE r.enrollments]
         IN IF r.outcome = "throw" THEN t ELSE syncCoursesWithLocalDB(t, userId, Tail(moodleCourses))

SyncBegin(p, userIds, rosters) ==
    /\ req[p].stage = "idle"
    /\ nreq < MaxReqs
    /\ nreq' = nreq + 1
    /\ \E userId \in userIds, moodleCourses \in rosters :
          req' = [req EXCEPT ![p] = [op |-> "getEnrolledCourses", stage |-> "syncCourse", actor |-> userId, roster |-> moodleCourses, synced |-> moodleCourses]]
    /\ UNCHANGED <<users, courses, enrollments, logs, nextId, resp, hist>>

\* The sync is over: the handler answers with the local courses; the reply
\* is tagged with the user and the roster that were synced.
SyncDone(p) == Reply(p, "getEnrolledCourses", req[p].actor, 200, "ok", {<<req[p].actor, req[p].synced>>})
SyncNext(p, stage) ==
    IF Len(req[p].roster) = 1 THEN SyncDone(p)
    ELSE /\ req' = [req EXCEPT ![p] = [op |-> "getEnrolledCourses", stage |-> stage, actor |-> req[p].actor, roster |-> Tail(req[p].roster), synced |-> req[p].synced]]
         /\ UNCHANGED resp

\* Trainers, course lookup and course create or update for the course at
\* the head of the roster
SyncCourse(p) ==
    /\ req[p].op = "getEnrolledCourses" /\ req[p].stage = "syncCourse"
    /\ LET r == syncCourseStep([users |-> users, courses |-> courses, enrollments |-> enrollments], req[p].actor, Head(req[p].roster))
       IN /\ users' = r.users
          /\ courses' = r.courses
          /\ enrollments' = r.enrollments
          /\ CASE r.outcome = "created" -> SyncNext(p, "syncCourse")
               [] r.outcome = "throw" -> SyncDone(p)
               [] OTHER -> /\ req' = [req EXCEPT ![p] = [op |-> "getEnrolledCourses", stage |-> "syncFind", actor |-> req[p].actor, roster |-> req[p].roster, synced |-> req[p].synced]]
                           /\ UNCHANGED resp
    /\ UNCHANGED <<logs, nextId, nreq, hist>>

\* "Check if enrollment exists" for the course at the head of the roster
SyncFindEnrollment(p) ==
    /\ req[p].op = "getEnrolledCourses" /\ req[p].stage = "syncFind"
    /\ IF isEnrolled(Head(req[p].roster).id, req[p].actor)
       THEN SyncNext(p, "syncCourse")
       ELSE /\ req' = [req EXCEPT ![p] = [op |-> "getEnrolledCourses", stage |-> "syncCreate", actor |-> req[p].actor, roster |-> req[p].roster, synced |-> req[p].synced]]
            /\ UNCHANGED resp
    /\ UNCHANGED <<users, courses, enrollments, logs, nextId, nreq, hist>>

\* prisma.courseEnrollment.create of the sync; a refused insert is caught
\* outside the loop over the roster, which ends the sync.
SyncCreateEnrollment(p) ==
    /\ req[p].op = "getEnrolledCourses" /\ req[p].stage = "syncCreate"
    /\ IF enrollmentUniqueViolation(Head(req[p].roster).id, req[p].actor)
       THEN /\ SyncDone(p)
            /\ UNCHANGED enrollments
       ELSE /\ enrollments' = enrollments (+) SetToBag({<<Head(req[p].roster).id, req[p].actor>>})
            /\ SyncNext(p, "syncCourse")
    /\ UNCHANGED <<users, courses, logs, nextId, nreq, hist>>

EnrollCourseInputs == CourseIds \cup {"c0"}
EnrollLearnerInputs == {NULL, Some("L2"), Some("T1")}
Rosters == {<<Entry("c1", <<>>)>>, <<Entry("c2", <<>>), Entry("c1", <<>>)>>}

NextEnroll == \E p \in Procs : \/ EnrollInCourseBegin(p, {"L1", "L2", "T1", "A1"}, EnrollCourseInputs, EnrollLearnerInputs)
                                \/ EnrollInCourseCreate(p)
                                \/ SyncBegin(p, Learners, Rosters)
                                \/ SyncCourse(p)
                                \/ SyncFindEnrollment(p)
                                \/ SyncCreateEnrollment(p)

SpecEnroll == Init /\ [][NextEnroll]_vars

\* ------------------------------------------------ createCourse, updateCourse
\* A course is keyed by its unique natural key (enrollmentNumber, moodleId).
\* The columns createCourse hands to prisma.course.create, and the columns
\* of model Course that have neither a default nor a "?".
createCourseColumns == {"title", "description", "enrollmentNumber", "facultyName", "teacherId"}
requiredCourseColumns == {"title", "name", "enrollmentNumber", "location", "startDate", "endDate", "teacherId"}

\* "Determine the actual teacher"
actualTeacherId(userId, teacherId) == IF users[userId] = "ADMIN" /\ ~IsNull(teacherId) THEN Val(teacherId) ELSE userId

\* "Verify teacher exists and has correct role"
invalidTeacher(userId, teacherId) ==
    users[userId] = "ADMIN" /\ ~IsNull(teacherId) /\ (Val(teacherId) \notin DOMAIN users \/ users[Val(teacherId)] # "TEACHER")

createCourseCheck(userId, enrollmentNumber, teacherId) ==
    IF users[userId] \notin {"TEACHER", "ADMIN"} THEN [status |-> 403, message |-> "Only teachers and admins can create courses"]
    ELSE IF enrollmentNumber \in DOMAIN courses THEN [status |-> 400, message |-> "Enrollment number already exists"]
    ELSE IF invalidTeacher(userId, teacherId) THEN [status |-> 400, message |-> "Invalid teacher ID"]
    ELSE IF ~(requiredCourseColumns \subseteq createCourseColumns) THEN [status |-> 500, message |-> "Failed to create course"]
    ELSE [status |-> 0, message |-> "create"]

CreateCourse(p, actors, enrollmentNumbers, teacherIds) ==
    /\ req[p].stage = "idle"
    /\ nreq < MaxReqs
    /\ nreq' = nreq + 1
    /\ \E userId \in actors, enrollmentNumber \in enrollmentNumbers, teacherId \in teacherIds :
          LET check == createCourseCheck(userId, enrollmentNumber, teacherId)
          IN IF check.status # 0
             THEN /\ Reply(p, "createCourse", userId, check.status, check.message, {enrollmentNumber})
                  /\ UNCHANGED courses
             ELSE /\ courses' = (enrollmentNumber :> [teacherId |-> actualTeacherId(userId, teacherId), courseTeachers |-> {}, endDate |-> NULL]) @@ courses
                  /\ Reply(p, "createCourse", userId, 201, "Course created successfully", {enrollmentNumber})
    /\ UNCHANGED <<users, enrollments, logs, nextId, hist>>

updateCourseCheck(userId, id, teacherId) ==
    IF id \notin DOMAIN courses THEN [status |-> 404, message |-> "Course not found"]
    ELSE IF users[userId] = "TEACHER" /\ courses[id].teacherId # userId THEN [status |-> 403, message |-> "Access denied"]
    ELSE IF invalidTeacher(userId, teacherId) THEN [status |-> 400, message |-> "Invalid teacher ID"]
    ELSE [status |-> 0, message |-> "update"]

\* "Only admin can change teacher"
updateCourseData(userId, existingCourse, teacherId) ==
    IF users[userId] = "ADMIN" /\ ~IsNull(teacherId) THEN [existingCourse EXCEPT !.teacherId = Val(teacherId)] ELSE existingCourse

UpdateCourse(p, actors, ids, teacherIds) ==
    /\ req[p].stage = "idle"
    /\ nreq < MaxReqs
    /\ nreq' = nreq + 1
    /\ \E userId \in actors, id \in ids, teacherId \in teacherIds :
          LET check == updateCourseCheck(userId, id, teacherId)
          IN IF check.status # 0
             THEN /\ Reply(p, "updateCourse", userId, check.status, check.message, {id})
                  /\ UNCHANGED courses
             ELSE /\ courses' = [courses EXCEPT ![id] = updateCourseData(userId, courses[id], teacherId)]
                  /\ Reply(p, "updateCourse", userId, 200, "Course updated successfully", {id})
    /\ UNCHANGED <<users, enrollments, logs, nextId, hist>>

\* Upstream rosters: a course unknown locally without and with trainers
\* (X1 is not yet a user), and known courses with and without trainers.
SyncRosters == {<<Entry("c3", <<>>)>>,
                <<Entry("c3", <<"T2", "X1">>)>>,
                <<Entry("c1", <<"T2">>), Entry("c3", <<>>)>>,
                <<Entry("c1", <<>>), Entry("c2", <<>>)>>}

NextSync == \E p \in Procs : \/ SyncBegin(p, Learners, SyncRosters)
                              \/ SyncCourse(p)
                              \/ SyncFindEnrollment(p)
                              \/ SyncCreateEnrollment(p)
                              \/ CreateCourse(p, {"L1", "T1", "A1"}, {"c1", "c4"}, {NULL, Some("T2"), Some("L1")})
                              \/ UpdateCourse(p, {"L1", "T1", "T2", "A1"}, {"c1", "c0"}, {NULL, Some("T2"), Some("L2")})

SpecSync == Init /\ [][NextSync]_vars

\* ------------------------------------------------------ email notification
\* email.middleware: prepareSubmissionData and sendEmailNotification.  No
\* route mounts them (submission.routes only imports them) and the handlers
\* end with res.json, so the notification is modelled where its comment puts
\* it, "after the submission status is updated": a callback that starts from
\* the answer of a successful approve or reject and shares no state with it.
ReviewOps == {"approveTask", "approveCase", "rejectTask", "rejectCase"}

\* req.submissionData as prepareSubmissionData builds it
submissionData(id, url) == [id |-> id, learnerId |-> logs[id].createdById, title |-> logs[id].caseNo,
                            status |-> IF url \in {"approveTask", "approveCase"} THEN "approved" ELSE "rejected"]

emailMiddlewareCatch_fails(r) == [op |-> r.op, code |-> 500, msg |-> "Email middleware error", ids |-> r.ids]

\* catch (error) { console.error(...); next(); }: the response is not touched
emailMiddlewareCatch(r) == r

SendEmailNotification(p) ==
    /\ req[p].stage = "idle"
    /\ resp.op \in ReviewOps /\ resp.code = 200
    /\ \E id \in resp.ids :
          /\ id \in DOMAIN logs
          /\ req' = [req EXCEPT ![p] = [op |-> "sendEmailNotification", stage |-> "fetchLearner", submissionData |-> submissionData(id, resp.op)]]
    /\ UNCHANGED <<users, courses, enrollments, logs, nextId, resp, nreq, hist>>

\* await prisma.user.findUnique: the learner is found, or the lookup throws.
\* With a learner the mail is handed to the email service without await and
\* next() is called.
FetchLearner(p) ==
    /\ req[p].op = "sendEmailNotification" /\ req[p].stage = "fetchLearner"
    /\ \/ /\ req[p].submissionData.learnerId \in DOMAIN users
          /\ req' = [req EXCEPT ![p] = [op |-> "sendEmailNotification", stage |-> "idle", submissionData |-> req[p].submissionData, mail |-> "sending"]]
          /\ UNCHANGED resp
       \/ /\ req' = [req EXCEPT ![p] = [op |-> "sendEmailNotification", stage |-> "idle", submissionData |-> req[p].submissionData, mail |-> "none"]]
          /\ resp' = emailMiddlewareCatch(resp)
    /\ UNCHANGED <<users, courses, enrollments, logs, nextId, nreq, hist>>

\* EmailService.sendSubmissionStatusEmail settles: true when sendMail
\* returned, false when it threw.  A mail that never settles stays "sending".
SendSubmissionStatusEmail(p) ==
    /\ req[p].op = "sendEmailNotification" /\ req[p].stage = "idle" /\ req[p].mail = "sending"
    /\ \E result \in {TRUE, FALSE} :
          req' = [req EXCEPT ![p] = [op |-> "sendEmailNotification", stage |-> "idle", submissionData |-> req[p].submissionData,
                                     mail |-> IF result THEN "sent" ELSE "failed"]]
    /\ UNCHANGED <<users, courses, enrollments, logs, nextId, resp, nreq, hist>>

NextNotify == \E p \in Procs : \/ CreateTaskBegin(p, {"L1"}, CreateBodies({Some("SUBMITTED")}, {"c1"}, {ThisYear}), MaxLogs)
                                \/ GenerateCaseNo(p)
                                \/ CreateTaskLookup(p)
                                \/ CreateTaskInsert(p)
                                \/ ApproveCaseBegin(p, {"T1"}, RequestIds, {NULL})
                                \/ RejectCaseBegin(p, {"T1"}, RequestIds, {ValidRejection}, {NULL})
                                \/ PrismaLogWrite(p)
                                \/ SendEmailNotification(p)
                                \/ FetchLearner(p)
                                \/ SendSubmissionStatusEmail(p)

SpecNotify == Init /\ [][NextNotify]_vars

\* ------------------------------------------------------ teacher dashboard
\* getSubmissions: the logs of the teacher's courses, filtered, ordered by
\* createdAt desc (ids are handed out in creation order), one page of them,
\* grouped by learner and course.

\* parseInt(page || "1"), parseInt(limit || "14")
DefaultPage == 1
DefaultLimit == 14
LimitCap == 100
validatePagination(page, limit) ==
    LET pageNum == IF IsNull(page) THEN DefaultPage ELSE Val(page)
        limitNum == IF IsNull(limit) THEN DefaultLimit ELSE Val(limit)
    IN IF pageNum < 1 THEN [ok |-> FALSE, message |-> "Page must be a positive integer"]
       ELSE IF limitNum < 1 \/ limitNum > LimitCap THEN [ok |-> FALSE, message |-> "Limit must be between 1 and 100"]
       ELSE [ok |-> TRUE, page |-> pageNum, limit |-> limitNum]

validStatuses == {"DRAFT", "SUBMITTED", "APPROVED", "REJECTED", "RESUBMITTED"}

teacherCourses_all(teacherId) == DOMAIN courses

\* Courses where the user is the primary teacher or has a CourseTeacher row
teacherCourses(teacherId) == {c \in DOMAIN courses : courses[c].teacherId = teacherId \/ teacherId \in courses[c].courseTeachers}

\* The where clause of the findMany.  A search term or department is given
\* by what it matches: the users and courses whose name, title or faculty
\* name contain it.
whereClause(i, courseIds, f) ==
    /\ logs[i].courseId \in courseIds
    /\ (~IsNull(f.status) /\ f.status # Some("ALL")) => logs[i].status = Val(f.status)
    /\ ~IsNull(f.search) => (logs[i].createdById \in Val(f.search).users \/ logs[i].courseId \in Val(f.search).courses)
    /\ ~IsNull(f.department) => logs[i].courseId \in Val(f.department)
    /\ ~IsNull(f.startDate) => i >= Val(f.startDate)
    /\ ~IsNull(f.endDate) => i <= Val(f.endDate)

submissionsWhere_withDrafts(i, courseIds, f) == whereClause(i, courseIds, f)

\* findMany({where: {...where, NOT: {status: 'DRAFT'}}})
submissionsWhere(i, courseIds, f) == whereClause(i, courseIds, f) /\ logs[i].status # "DRAFT"

\* prisma.log.count({ where }), and the pagination object of the answer
countSubmissions(courseIds, f) == Cardinality({i \in DOMAIN logs : whereClause(i, courseIds, f)})
pagination(pageNum, limitNum, total) == [page |-> pageNum, limit |-> limitNum, total |-> total, totalPages |-> MathCeilDiv(total, limitNum)]

\* orderBy createdAt desc, skip, take: the ids of one page, newest first
RECURSIVE sortDesc(_)
sortDesc(ids) == IF ids = {} THEN <<>>
                 ELSE LET m == CHOOSE x \in ids : \A y \in ids : y <= x IN <<m>> \o sortDesc(ids \ {m})

pageOf_untaken(seq, skip, take) == SubSeq(seq, skip + 1, Len(seq))

pageOf(seq, skip, take) == SubSeq(seq, skip + 1, IF skip + take < Len(seq) THEN skip + take ELSE Len(seq))

findManySubmissions(courseIds, f, pageNum, limitNum) ==
    pageOf(sortDesc({i \in DOMAIN logs : submissionsWhere(i, courseIds, f)}), (pageNum - 1) * limitNum, limitNum)

\* The class's own getPriority, used for the dashboard's submissions
SubmissionController_getPriority(l) ==
    LET dueDate == courses[logs[l].courseId].endDate
        daysDiff == MathCeilDiv(Val(dueDate) - now, UnitsPerDay)
    IN IF IsNull(dueDate) THEN "medium"
       ELSE IF daysDiff <= 1 THEN "high"
       ELSE IF daysDiff <= 7 THEN "medium"
       ELSE "low"

\* The helper function getPriority at the end of the file, used by
\* getSubmissionById and getAllCasesForUser
getPriority(l) ==
    LET dueDate == courses[logs[l].courseId].endDate
        daysUntilDue == MathCeilDiv(Val(dueDate) - now, UnitsPerDay)
    IN IF IsNull(dueDate) THEN "low"
       ELSE IF daysUntilDue < 0 THEN "overdue"
       ELSE IF daysUntilDue < 1 THEN "high"
       ELSE IF daysUntilDue < 7 THEN "medium"
       ELSE "low"

\* cases.filter(c => ...).length
countStatus(cases, statuses) == Cardinality({k \in DOMAIN cases : logs[cases[k]].status \in statuses})

overallStatus_pendingFirst(cases) ==
    IF countStatus(cases, {"SUBMITTED", "RESUBMITTED"}) > 0 THEN "pending"
    ELSE IF countStatus(cases, {"REJECTED"}) > 0 THEN "rejected"
    ELSE IF countStatus(cases, {"APPROVED"}) = Len(cases) /\ Len(cases) > 0 THEN "approved"
    ELSE "draft"

\* "Determine overall status"
overallStatus(cases) ==
    LET totalCases == Len(cases)
        approvedCases == countStatus(cases, {"APPROVED"})
        rejectedCases == countStatus(cases, {"REJECTED"})
        pendingCases == countStatus(cases, {"SUBMITTED", "RESUBMITTED"})
    IN IF rejectedCases > 0 THEN "rejected"
       ELSE IF pendingCases > 0 THEN "pending"
       ELSE IF approvedCases = totalCases /\ totalCases > 0 THEN "approved"
       ELSE "draft"

\* The entry of submissionMap for one learner-course key: its cases in the
\* order they were fetched, and the statistics computed from them.
SelectSeq2(seq, key) == SelectSeq(seq, LAMBDA i : <<logs[i].createdById, logs[i].courseId>> = key)
transformSubmission(fetched, key) ==
    LET cases == SelectSeq2(fetched, key)
    IN [learnerId |-> key[1], courseId |-> key[2], cases |-> cases,
        priority |-> SubmissionController_getPriority(cases[1]),
        status |-> overallStatus(cases),
        totalCases |-> Len(cases),
        approvedCases |-> countStatus(cases, {"APPROVED"}),
        rejectedCases |-> countStatus(cases, {"REJECTED"}),
        pendingCases |-> countStatus(cases, {"SUBMITTED", "RESUBMITTED"}),
        completedCases |-> countStatus(cases, {"APPROVED"})]

transformedSubmissions(fetched) ==
    {transformSubmission(fetched, key) : key \in {<<logs[fetched[k]].createdById, logs[fetched[k]].courseId>> : k \in DOMAIN fetched}}

\* The handler writes nothing, so it takes none of the MaxReqs requests.
GetSubmissions(p, teachers, filters) ==
    /\ req[p].stage = "idle"
    /\ \E teacherId \in teachers, f \in filters :
          LET pg == validatePagination(f.page, f.limit)
              courseIds == teacherCourses(teacherId)
          IN IF ~pg.ok THEN Reply(p, "getSubmissions", teacherId, handleError("ValidationError").status, pg.message, {})
             ELSE IF ~IsNull(f.startDate) /\ ~IsNull(f.endDate) /\ Val(f.startDate) > Val(f.endDate)
                  THEN Reply(p, "getSubmissions", teacherId, handleError("ValidationError").status, "Start date cannot be after end date", {})
             ELSE IF courseIds = {}
                  THEN /\ resp' = [op |-> "getSubmissions", code |-> 200, msg |-> "ok", ids |-> {}, teacherId |-> teacherId, submissions |-> {},
                                   pagination |-> pagination(pg.page, pg.limit, 0)]
                       /\ req' = [req EXCEPT ![p] = Idle]
             ELSE IF ~IsNull(f.status) /\ f.status # Some("ALL") /\ Val(f.status) \notin validStatuses
                  THEN Reply(p, "getSubmissions", teacherId, handleError("ValidationError").status, "Invalid status", {})
             ELSE LET fetched == findManySubmissions(courseIds, f, pg.page, pg.limit)
                  IN /\ resp' = [op |-> "getSubmissions", code |-> 200, msg |-> "ok", ids |-> {fetched[k] : k \in DOMAIN fetched},
                                 teacherId |-> teacherId, submissions |-> transformedSubmissions(fetched),
                                 pagination |-> pagination(pg.page, pg.limit, countSubmissions(courseIds, f))]
                     /\ req' = [req EXCEPT ![p] = Idle]
    /\ UNCHANGED <<users, courses, enrollments, logs, nextId, nreq, hist>>

\* Tables the workflow can leave behind: the logs of c1 were written last
\* year, those of c2 this year, each numbered within its course and year.
MaxCases == 3
RowSpecs == ({<<"L1", "c1">>} \X LogStatus) \cup {<<<<"L2", "c1">>, "SUBMITTED">>, <<<<"L1", "c2">>, "APPROVED">>, <<<<"L1", "c2">>, "DRAFT">>}
ReviewerOf(courseId) == IF courseId = "c1" THEN "T1" ELSE "T3"
StoredRow(specs, i) ==
    LET creator == specs[i][1][1]
        courseId == specs[i][1][2]
        status == specs[i][2]
        year == IF courseId = "c1" THEN CurrentYear - 1 ELSE CurrentYear
        index == Cardinality({k \in 1 .. i : specs[k][1][2] = courseId})
    IN [courseId |-> courseId, date |-> [y |-> year, late |-> FALSE], status |-> status, content |-> 0,
        caseNo |-> FormatCaseNo(year, index), createdById |-> creator,
        submittedAt |-> IF status = "DRAFT" THEN NULL ELSE Some(0),
        rejectionReason |-> IF status = "REJECTED" THEN Some(Str(0, 10)) ELSE NULL,
        teacherComments |-> NULL,
        approvedAt |-> IF status = "APPROVED" THEN Some(0) ELSE NULL,
        rejectedAt |-> IF status = "REJECTED" THEN Some(0) ELSE NULL,
        approvedById |-> IF status = "APPROVED" THEN Some(ReviewerOf(courseId)) ELSE NULL,
        rejectedByID |-> NULL]
StoredTables == UNION {{[i \in 1 .. n |-> StoredRow(specs, i)] : specs \in [1 .. n -> RowSpecs]} : n \in 0 .. MaxCases}

NoFilter == [status |-> NULL, search |-> NULL, department |-> NULL, startDate |-> NULL, endDate |-> NULL, page |-> NULL, limit |-> NULL]
DashboardFilters ==
    {NoFilter,
     [NoFilter EXCEPT !.status = Some("ALL")],
     [NoFilter EXCEPT !.status = Some("SUBMITTED")],
     [NoFilter EXCEPT !.status = Some("PENDING")],
     [NoFilter EXCEPT !.search = Some([users |-> {"L1"}, courses |-> {}])],
     [NoFilter EXCEPT !.department = Some({"c2"})],
     [NoFilter EXCEPT !.startDate = Some(2)],
     [NoFilter EXCEPT !.startDate = Some(2), !.endDate = Some(1)],
     [NoFilter EXCEPT !.page = Some(2), !.limit = Some(1)],
     [NoFilter EXCEPT !.page = Some(0)]}

InitDashboard == /\ users = UserRoles
                 /\ courses = [c \in CourseIds |-> IF c = "c1" THEN [teacherId |-> "T1", courseTeachers |-> {"T2"}, endDate |-> Some(DueFar)] ELSE [teacherId |-> "T3", courseTeachers |-> {}, endDate |-> Some(DueFar)]]
                 /\ enrollments = SetToBag({<<"c1", "L1">>, <<"c2", "L1">>, <<"c1", "L2">>})
                 /\ logs \in StoredTables
                 /\ nextId = Len(logs) + 1
                 /\ req = [p \in Procs |-> Idle]
                 /\ resp = NoResp
                 /\ nreq = 0
                 /\ hist = [i \in DOMAIN logs |-> <<>>]

\* One reader: the requests of a handler that writes nothing do not interleave.
NextDashboard == GetSubmissions("p1", {"T1", "T2", "T3", "A1"}, DashboardFilters)

SpecDashboard == InitDashboard /\ [][NextDashboard]_vars

\* ------------------------------------------------------------- getTaskById
\* "Check permissions": the creator, the course's teacherId, or an ADMIN
canView(userId, id) == \/ logs[id].createdById = userId
                       \/ courses[logs[id].courseId].teacherId = userId
                       \/ users[userId] = "ADMIN"

getTaskByIdCheck(userId, id) ==
    IF id \notin DOMAIN logs THEN [status |-> 404, message |-> "Task not found"]
    ELSE IF ~canView(userId, id) THEN [status |-> 403, message |-> "Access denied"]
    ELSE [status |-> 200, message |-> "ok"]

\* One findUnique and the answer; data: log only with the 200.
GetTaskById(p, actors, ids) ==
    /\ req[p].stage = "idle"
    /\ \E userId \in actors, id \in ids :
          LET c == getTaskByIdCheck(userId, id)
          IN /\ resp' = [op |-> "getTaskById", code |-> c.status, msg |-> c.message, ids |-> {id}, userId |-> userId,
                         data |-> IF c.status = 200 THEN Some(logs[id]) ELSE NULL]
             /\ req' = [req EXCEPT ![p] = Idle]
    /\ UNCHANGED <<users, courses, enrollments, logs, nextId, nreq, hist>>

ViewIds == 0 .. MaxCases
NextView == GetTaskById("p1", Users, ViewIds)

SpecView == InitDashboard /\ [][NextView]_vars

\* ------------------------------------------------------- getSubmissionById
\* findFirst({id, course: {teacherId}}): the primary teacher's view of one case
GetSubmissionById(p, teachers, ids) ==
    /\ req[p].stage = "idle"
    /\ \E teacherId \in teachers, id \in ids :
          IF id \in DOMAIN logs /\ courses[logs[id].courseId].teacherId = teacherId
          THEN /\ resp' = [op |-> "getSubmissionById", code |-> 200, msg |-> "ok", ids |-> {id}, teacherId |-> teacherId,
                           priority |-> getPriority(id)]
               /\ req' = [req EXCEPT ![p] = Idle]
          ELSE Reply(p, "getSubmissionById", teacherId, handleError("NotFoundError").status, "Submission not found or you do not have permission to view it", {id})
    /\ UNCHANGED <<users, courses, enrollments, logs, nextId, nreq, hist>>

\* Course c1 ends between a day and a half ago and MaxDue half days ahead.
MaxDue == 15
DueDates == {Some(t) : t \in (0 - 3) .. MaxDue}
InitPriority == /\ users = UserRoles
                /\ \E due \in DueDates : courses = [c \in CourseIds |-> IF c = "c1" THEN [teacherId |-> "T1", courseTeachers |-> {"T2"}, endDate |-> due]
                                                                                         ELSE [teacherId |-> "T3", courseTeachers |-> {}, endDate |-> Some(DueFar)]]
                /\ enrollments = SetToBag({<<"c1", "L1">>, <<"c2", "L1">>, <<"c1", "L2">>})
                /\ logs \in {t \in StoredTables : Len(t) <= 1}
                /\ nextId = Len(logs) + 1
                /\ req = [p \in Procs |-> Idle]
                /\ resp = NoResp
                /\ nreq = 0
                /\ hist = [i \in DOMAIN logs |-> <<>>]

NextPriority == \/ GetSubmissions("p1", {"T1", "T3"}, {NoFilter})
                \/ GetSubmissionById("p1", {"T1", "T3"}, 0 .. 1)

SpecPriority == InitPriority /\ [][NextPriority]_vars

\* ----------------------------------------------------------------- claims
MutatingOps == {"updateTask", "deleteTask", "approveTask", "approveCase", "rejectTask", "rejectCase", "bulkApprove"}
ErrorCodes == {400, 403, 404, 409}
IsApproved(l) == l \in DOMAIN logs /\ logs[l].status = "APPROVED"

\* C1: a request to update, delete, approve, reject or bulk-approve that
\* arrives while its log is stored as APPROVED is answered with an error at
\* once: no statement is scheduled for it and the table is left as it was.
C1_ApprovedIsTerminal ==
    [][nreq' = nreq + 1 =>
         /\ logs' = logs
         /\ \A p \in Procs : (req'[p] # req[p] /\ req'[p].op \in MutatingOps) => \A l \in req'[p].ids : ~IsApproved(l)
         /\ ((\A p \in Procs : req'[p] = req[p]) /\ resp'.op \in MutatingOps /\ (\E l \in resp'.ids : IsApproved(l))) => resp'.code \in ErrorCodes]_vars

\* C1 witness: the last answer is the refusal of an update of an approved log.
C1_Witness == /\ resp.op = "updateTask" /\ resp.msg = "Cannot update approved tasks"
              /\ \E l \in resp.ids : IsApproved(l)

ApproveOps == {"approveTask", "approveCase"}
RejectOps == {"rejectTask", "rejectCase"}
OpposingOps(op) == IF op \in ApproveOps THEN RejectOps ELSE ApproveOps

\* The statement of p is applied in this step.
Writes(p) == req[p].stage = "write" /\ req'[p].stage = "idle"
TargetOf(p) == CHOOSE i \in req[p].ids : TRUE

\* Since p read its log, an opposing review request has written it and that
\* decision is what the row now shows.
LostRace(p) == /\ TargetOf(p) \in DOMAIN logs
               /\ logs[TargetOf(p)].status \in {"APPROVED", "REJECTED"}
               /\ \E k \in (req[p].seen + 1) .. Len(hist[TargetOf(p)]) : hist[TargetOf(p)][k].op \in OpposingOps(req[p].op)

\* C2: of an approve and a reject racing on the same SUBMITTED log exactly
\* one wins: the request whose write comes second is answered with a
\* NotFound/Conflict error and the row keeps the winner's status and
\* attribution.
C2_ExactlyOneWins ==
    [][\A p \in Procs : (Writes(p) /\ req[p].op \in ApproveOps \cup RejectOps /\ LostRace(p))
                           => (resp'.code \in {404, 409} /\ logs' = logs)]_vars

\* C3: the write of an updateTask never applies to a log that is APPROVED
\* when the write runs: an approved row keeps its content and its status
\* whatever update read it before the approval.
C3_UpdateRechecksStatus ==
    [][\A p \in Procs : (Writes(p) /\ req[p].op = "updateTask" /\ IsApproved(TargetOf(p)))
                           => logs' = logs]_vars

\* C4: a log named in a bulkApprove that is no longer SUBMITTED when the
\* batch statement runs is left out of the batch and keeps the status and
\* attribution the racing request gave it.
C4_BulkExcludesRaced ==
    [][\A p \in Procs : (Writes(p) /\ req[p].op = "bulkApprove")
                           => \A l \in req[p].ids : (l \in DOMAIN logs /\ logs[l].status # "SUBMITTED") => logs'[l] = logs[l]]_vars

CaseNoUnique == \A i, j \in DOMAIN logs : logs[i].caseNo = logs[j].caseNo => i = j

\* The insert of p is issued while a stored row already holds its caseNo.
InsertCollides(p) == /\ req[p].op = "createTask" /\ req[p].stage = "insert" /\ req'[p].stage = "idle"
                     /\ findUniqueByCaseNo(req[p].taskData.caseNo) # {}

\* C5: however concurrent createTask requests interleave their count,
\* lookup and insert steps, no two stored logs share a caseNo, and an insert
\* that meets a stored row with its caseNo is answered 409 and stores
\* nothing.
C5_CaseNoUniqueUnderRaces ==
    [][/\ CaseNoUnique'
       /\ \A p \in Procs : InsertCollides(p) => (resp'.code = 409 /\ logs' = logs)]_vars

C5_Witness == /\ resp.op = "createTask" /\ resp.code = 409 /\ resp.msg = "A record with this data already exists"
              /\ Cardinality(DOMAIN logs) >= 2

\* A createTask that had the table to itself: no row was inserted between
\* its arrival and the step it takes now.
RanAlone(p) == req[p].op = "createTask" /\ req[p].seenNext = nextId
\* Every stored log is dated inside the current year, so that "the logs of
\* the course for the year" are simply the logs of the course.
AllDatedThisYear == \A i \in DOMAIN logs : logs[i].date = ThisYear
CourseOf(p) == IF req[p].stage = "insert" THEN req[p].taskData.courseId ELSE req[p].body.courseId
LogsOfYear(courseId) == {i \in DOMAIN logs : logs[i].courseId = courseId /\ logs[i].date.y = CurrentYear}
ExpectedCaseNo(courseId) == [year |-> CurrentYear,
                             idx |-> LET k == Cardinality(LogsOfYear(courseId)) + 1 IN <<k \div 100, (k \div 10) % 10, k % 10>>]

\* C6: a createTask of an enrolled learner in a course holding n logs of
\* the year ends with 201 and stores CASE-<year>-<n+1 on three digits>,
\* 001 for a course without logs, whatever numbers other courses hold.
C6_AllocatesNextIndex ==
    [][\A p \in Procs : (RanAlone(p) /\ AllDatedThisYear /\ req[p].stage \in {"lookup", "insert"} /\ req'[p].stage = "idle")
                           => /\ resp'.code = 201
                              /\ \A i \in resp'.ids : logs'[i].caseNo = ExpectedCaseNo(CourseOf(p))]_vars

AllowedTransitions == ({"DRAFT", "REJECTED"} \X {"SUBMITTED", "RESUBMITTED"}) \cup (PendingStatuses \X {"APPROVED", "REJECTED"})

\* C7: whenever the stored status of a log changes, the change is a
\* submission of a DRAFT or REJECTED log or a decision on a SUBMITTED or
\* RESUBMITTED one; no update moves a log back to DRAFT or turns a
\* SUBMITTED log into a RESUBMITTED one.
C7_OnlyAllowedTransitions ==
    [][\A l \in DOMAIN logs \cap DOMAIN logs' :
          logs'[l].status # logs[l].status => <<logs[l].status, logs'[l].status>> \in AllowedTransitions]_vars

\* canReviewLog(actor, log)
canReviewLog(actor, l) == /\ users[actor] = "TEACHER"
                          /\ actor \in {courses[logs[l].courseId].teacherId} \cup courses[logs[l].courseId].courseTeachers
ValidReason == Some(Str(0, 10))

\* C8: for a log awaiting review, each approve and reject endpoint lets the
\* request of an actor through exactly when the actor is a TEACHER who is
\* the primary teacher or a co-teacher of the log's course.
C8_ReviewIffCourseTeacher ==
    \A l \in DOMAIN logs : logs[l].status \in PendingStatuses =>
        \A a \in Users : /\ (approveCaseCheck(a, l).status = 0) <=> canReviewLog(a, l)
                         /\ (rejectCaseCheck(a, l, ValidReason).status = 0) <=> canReviewLog(a, l)
                         /\ (approveTaskCheck(a, l).status = 0) <=> canReviewLog(a, l)
                         /\ (rejectTaskCheck(a, l, ValidReason).status = 0) <=> canReviewLog(a, l)

ReasonAcceptable(reason) == ~IsNull(reason) /\ length(Val(reason)) >= 10 /\ length(Val(reason)) <= 1000

\* C9: a reject request, on either endpoint, changes a stored log only if
\* its rejectionReason is present and 10 to 1000 characters long; with any
\* other reason the log keeps its status, reason and attribution.
C9_RejectNeedsReason ==
    [][\A p \in Procs : (Writes(p) /\ req[p].op \in RejectOps /\ logs' # logs)
                           => ReasonAcceptable(req[p].body.rejectionReason)]_vars

\* The log was written exactly three times: created as DRAFT, submitted by
\* its creator, approved by a teacher.
DraftSubmitApprove(l) == /\ Len(hist[l]) = 3
                         /\ hist[l][1].op = "create:DRAFT"
                         /\ hist[l][2].op = "update:SUBMITTED" /\ hist[l][2].by = hist[l][1].by
                         /\ hist[l][3].op \in ApproveOps

\* C10: a log created as DRAFT, submitted by its creator and approved by
\* teacher T is stored as APPROVED with submittedAt <= approvedAt, no
\* rejectionReason and approvedById = T.
C10_RoundTrip ==
    \A l \in DOMAIN logs : DraftSubmitApprove(l) =>
        /\ logs[l].status = "APPROVED"
        /\ ~IsNull(logs[l].submittedAt) /\ ~IsNull(logs[l].approvedAt)
        /\ Val(logs[l].submittedAt) <= Val(logs[l].approvedAt)
        /\ logs[l].rejectionReason = NULL
        /\ logs[l].approvedById = Some(hist[l][3].by)

C10_Witness == \E l \in DOMAIN logs : DraftSubmitApprove(l) /\ logs[l].approvedById = Some("T1")

\* The statement of p is applied to the row exactly as p read it: no other
\* write reached the row in between.
WritesAsRead(p) == /\ Writes(p) /\ req[p].kind = "update"
                   /\ TargetOf(p) \in DOMAIN logs
                   /\ req[p].seen = Len(hist[TargetOf(p)])

\* C11: a stored log carries a rejectionReason only while its status is
\* REJECTED: a write that submits a rejected log again clears the reason,
\* whichever of SUBMITTED and RESUBMITTED the new status is, and a write that
\* approves a log leaves the reason null.
C11_ReasonOnlyWhileRejected ==
    [][\A p \in Procs : WritesAsRead(p) =>
          LET l == TargetOf(p)
          IN /\ (logs[l].status = "REJECTED" /\ logs'[l].status \in PendingStatuses) => IsNull(logs'[l].rejectionReason)
             /\ (logs[l].status # "APPROVED" /\ logs'[l].status = "APPROVED") => IsNull(logs'[l].rejectionReason)]_vars

\* C12: a reject that succeeds for teacher T leaves the log REJECTED with
\* rejectedByID = T, rejectedAt set and rejectionReason the trimmed text of
\* the request, and does not touch approvedById or approvedAt.
C12_RejectAttribution ==
    [][\A p \in Procs : (Writes(p) /\ req[p].op \in RejectOps /\ resp'.code = 200) =>
          LET l == TargetOf(p)
          IN /\ logs'[l].status = "REJECTED"
             /\ logs'[l].rejectedByID = Some(req[p].actor)
             /\ ~IsNull(logs'[l].rejectedAt)
             /\ logs'[l].rejectionReason = Some(trim(Val(req[p].body.rejectionReason)))
             /\ logs'[l].approvedById = logs[l].approvedById
             /\ logs'[l].approvedAt = logs[l].approvedAt]_vars

ValidUpdateBodies == {b \in WorkflowUpdateBodies : updateTaskSchemaOk(b)}

\* C13: whatever the status of a stored log, updateTask and deleteTask
\* answer 403 to every actor other than its creator, the course teacher and
\* an ADMIN included, and go no further.
C13_OnlyCreatorMutates ==
    \A l \in DOMAIN logs : \A a \in Users \ {logs[l].createdById} :
        /\ \A b \in ValidUpdateBodies : updateTaskCheck(a, l, b).status = 403
        /\ deleteTaskCheck(a, l).status = 403

ValidAllocBodies == {b \in AllocBodies : createTaskSchemaOk(b)}
NotEnrolled(a, b) == users[a] = "LEARNER" /\ ~BagIn(<<b.courseId, a>>, enrollments)

\* C15: createTask answers 403 to a learner without an enrollment in the
\* target course; only enrolled learners reach the allocation of a case
\* number, and a createTask that is refused on arrival leaves the stored
\* logs, and with them the next case number of every course, as they were.
C15_UnenrolledCreateRefused ==
    [][/\ \A a \in Users, b \in ValidAllocBodies : NotEnrolled(a, b) => createTaskCheck(a, b).status = 403
       /\ \A p \in Procs : (req[p].stage = "idle" /\ req'[p].stage = "count") =>
             BagIn(<<req'[p].body.courseId, req'[p].actor>>, enrollments)
       /\ (nreq' = nreq + 1 /\ resp'.op = "createTask" /\ \A p \in Procs : req'[p] = req[p]) =>
             /\ logs' = logs /\ nextId' = nextId
             /\ \A c \in CourseIds : generateCaseNo(c)' = generateCaseNo(c)]_vars

C15_Witness == /\ resp.op = "createTask" /\ resp.code = 403 /\ resp.msg = "You are not enrolled in this course"
               /\ Cardinality(DOMAIN logs) >= 1

EnrollmentUnique == \A e \in BagToSet(enrollments) : CopiesIn(e, enrollments) = 1

\* An enrollInCourse is answered in this step.
EnrollAnswered == /\ resp'.op = "enrollInCourse"
                  /\ \/ nreq' = nreq + 1 /\ \A p \in Procs : req'[p] = req[p]
                     \/ \E p \in Procs : req[p].stage = "enroll" /\ req'[p].stage = "idle"

\* C16: however enrollInCourse requests and roster syncs interleave, a
\* (courseId, learnerId) pair has at most one enrollment, and an
\* enrollInCourse answered while its pair is already enrolled gets 409 and
\* leaves the enrollments as they were.
C16_EnrollmentUnique ==
    [][/\ EnrollmentUnique'
       /\ (EnrollAnswered /\ \E e \in resp'.ids : BagIn(e, enrollments)) =>
             (resp'.code = 409 /\ enrollments' = enrollments)]_vars

Count(cases, statuses) == Cardinality({k \in DOMAIN cases : logs[cases[k]].status \in statuses})
GroupStatus(cases) ==
    IF \E k \in DOMAIN cases : logs[cases[k]].status = "REJECTED" THEN "rejected"
    ELSE IF \E k \in DOMAIN cases : logs[cases[k]].status \in PendingStatuses THEN "pending"
    ELSE IF cases # <<>> /\ \A k \in DOMAIN cases : logs[cases[k]].status = "APPROVED" THEN "approved"
    ELSE "draft"

\* C17: in a getSubmissions answer the fetched cases are partitioned by
\* (createdById, courseId); each group is 'rejected' if it holds a REJECTED
\* case, else 'pending' if it holds a SUBMITTED or RESUBMITTED one, else
\* 'approved' if it is not empty and all APPROVED, else 'draft', and its
\* counters are the numbers of its cases by status.
C17_GroupAggregation ==
    (resp.op = "getSubmissions" /\ resp.code = 200) =>
        /\ \A l \in resp.ids : \E s \in resp.submissions :
              /\ s.learnerId = logs[l].createdById /\ s.courseId = logs[l].courseId
              /\ \E k \in DOMAIN s.cases : s.cases[k] = l
        /\ \A s \in resp.submissions :
              /\ \A k \in DOMAIN s.cases : /\ s.cases[k] \in resp.ids
                                           /\ logs[s.cases[k]].createdById = s.learnerId
                                           /\ logs[s.cases[k]].courseId = s.courseId
              /\ \A j, k \in DOMAIN s.cases : s.cases[j] = s.cases[k] => j = k
              /\ s.status = GroupStatus(s.cases)
              /\ s.totalCases = Len(s.cases)
              /\ s.approvedCases = Count(s.cases, {"APPROVED"})
              /\ s.rejectedCases = Count(s.cases, {"REJECTED"})
              /\ s.pendingCases = Count(s.cases, {"SUBMITTED"}) + Count(s.cases, {"RESUBMITTED"})
              /\ s.completedCases = s.approvedCases

C17_Witness ==
    /\ resp.op = "getSubmissions" /\ resp.code = 200
    /\ \E s \in resp.submissions : /\ s.status = "rejected" /\ s.totalCases = 3
                                   /\ s.pendingCases = 1 /\ s.approvedCases = 1


\* The courses teacher T is associated with: primary teacher or co-teacher
AssociatedWith(teacherId, courseId) == courses[courseId].teacherId = teacherId \/ teacherId \in courses[courseId].courseTeachers

\* C18: every case getSubmissions returns to teacher T is not a DRAFT and
\* belongs to a course whose primary teacher or co-teacher is T, whatever
\* status, search, department, date or page parameters the request carries.
C18_DashboardScope ==
    (resp.op = "getSubmissions" /\ resp.code = 200) =>
        /\ \A l \in resp.ids : /\ logs[l].status # "DRAFT"
                               /\ AssociatedWith(resp.teacherId, logs[l].courseId)
        /\ \A s \in resp.submissions : /\ AssociatedWith(resp.teacherId, s.courseId)
                                       /\ \A k \in DOMAIN s.cases : /\ logs[s.cases[k]].status # "DRAFT"
                                                                    /\ AssociatedWith(resp.teacherId, logs[s.cases[k]].courseId)

\* The co-teacher of c1 asks while the table holds a draft of c1 and a
\* submitted log of c2, and is answered with a case of c1.
C18_Witness ==
    /\ resp.op = "getSubmissions" /\ resp.code = 200 /\ resp.teacherId = "T2"
    /\ resp.ids # {}
    /\ \E i, j \in DOMAIN logs : /\ logs[i].courseId = "c1" /\ logs[i].status = "DRAFT"
                                 /\ logs[j].courseId = "c2" /\ logs[j].status # "DRAFT"


\* canViewLog(actor, log) of the specification
canViewLog(actor, l) == logs[l].createdById = actor \/ canReviewLog(actor, l) \/ users[actor] = "ADMIN"

\* C19: getTaskById on a stored log answers 200 with the log if and only if
\* the actor is its creator, a TEACHER who is the course's primary teacher
\* or a co-teacher, or an ADMIN; every other actor gets 403 and no data.
C19_ViewIffAllowed ==
    (resp.op = "getTaskById" /\ resp.ids \subseteq DOMAIN logs) =>
        \A l \in resp.ids :
            /\ canViewLog(resp.userId, l) => (resp.code = 200 /\ resp.data = Some(logs[l]))
            /\ ~canViewLog(resp.userId, l) => (resp.code = 403 /\ IsNull(resp.data))


\* d: the whole number of days from now to the end date of the log's course
DaysToDue(l) == MathCeilDiv(Val(courses[logs[l].courseId].endDate) - now, UnitsPerDay)
PriorityOfDays(d) == IF d < 0 THEN "overdue" ELSE IF d < 1 THEN "high" ELSE IF d < 7 THEN "medium" ELSE "low"

\* C20: the priority of a dashboard submission is 'overdue' when d < 0,
\* 'high' when 0 <= d < 1, 'medium' when 1 <= d < 7 and 'low' when d >= 7,
\* and equals the priority the per-case endpoints compute for the same log.
C20_DashboardPriority ==
    (resp.op = "getSubmissions" /\ resp.code = 200) =>
        \A s \in resp.submissions : /\ s.priority = PriorityOfDays(DaysToDue(s.cases[1]))
                                    /\ s.priority = getPriority(s.cases[1])


\* C21: in every reachable state, after any createCourse, updateCourse and
\* roster-sync operations, the teacherId of every course names a user whose
\* role is TEACHER.
C21_PrimaryTeacherIsTeacher ==
    \A c \in DOMAIN courses : /\ courses[c].teacherId \in DOMAIN users
                              /\ users[courses[c].teacherId] = "TEACHER"


Tables == [users |-> users, courses |-> courses, enrollments |-> enrollments]
SyncedAgain(userId, roster) == syncCoursesWithLocalDB(Tables, userId, roster)
AllIdle == \A p \in Procs : req[p].stage = "idle"

\* C22: when a roster sync has completed, running it again for the same
\* user with the same upstream roster leaves the courses, enrollments and
\* co-teacher links as they are, and after it the user is enrolled in every
\* course of the roster.
C22_SyncIdempotent ==
    (resp.op = "getEnrolledCourses" /\ AllIdle) =>
        \A run \in resp.ids :
            LET userId == run[1]
                roster == run[2]
            IN /\ SyncedAgain(userId, roster).courses = courses
               /\ SyncedAgain(userId, roster).enrollments = enrollments
               /\ \A k \in DOMAIN roster : BagIn(<<roster[k].id, userId>>, SyncedAgain(userId, roster).enrollments)

\* The step in which the request of p is answered
Answered(p) == req'[p].stage = "idle" /\ (req[p].stage # "idle" \/ (nreq' = nreq + 1 /\ req' = req))
SuccessCodes == {200, 201}

\* C23: a log-workflow request (createTask, updateTask, deleteTask, approve,
\* reject, bulkApprove) that is answered with an error leaves every stored
\* log as it was, and every change of the stored logs is made by the step
\* that answers its request with success: no request writes first and then
\* reports a failure.
C23_ErrorsWriteNothing ==
    [][/\ (\E p \in Procs : Answered(p) /\ resp'.code \notin SuccessCodes) => (logs' = logs /\ hist' = hist)
       /\ (logs' # logs) => (\E p \in Procs : Answered(p) /\ resp'.code \in SuccessCodes)]_vars

\* A create that lost the race for its case number was refused by the
\* unique index at its insert, after the other request's log was stored.
C23_Witness == /\ resp.op = "createTask" /\ resp.code = handlePrismaError("P2002").status
               /\ logs # <<>>
               /\ \A p \in Procs : req[p].stage = "idle"


ResubmitBodies == {b \in WorkflowUpdateBodies : b.valid /\ b.status = Some("RESUBMITTED")}
\* The log was rejected and then resubmitted by its creator
ResubmittedAfterReject(l) ==
    /\ logs[l].status = "RESUBMITTED"
    /\ Len(hist[l]) >= 2
    /\ hist[l][Len(hist[l])] = [op |-> "update:RESUBMITTED", by |-> logs[l].createdById]
    /\ hist[l][Len(hist[l]) - 1].op \in RejectOps
    /\ ~IsNull(logs[l].rejectedAt) /\ ~IsNull(logs[l].submittedAt)
    /\ Val(logs[l].submittedAt) >= Val(logs[l].rejectedAt)

\* C24: REJECTED is not a dead end.  The creator's updateTask with status
\* RESUBMITTED is accepted for every REJECTED log, and once the log is
\* RESUBMITTED an approve request of a teacher of its course is accepted.
C24_RejectedIsNotDeadEnd ==
    \A l \in DOMAIN logs :
        /\ logs[l].status = "REJECTED" => \A b \in ResubmitBodies : updateTaskCheck(logs[l].createdById, l, b).status = 0
        /\ ResubmittedAfterReject(l) => \E t \in DOMAIN users : /\ canReviewLog(t, l)
                                                                /\ \/ approveTaskCheck(t, l).status = 0
                                                                   \/ approveCaseCheck(t, l).status = 0
                                                                   \/ bulkApproveCheck(t, {l}).status = 0


NotifySteps(p) == req'[p].op = "sendEmailNotification" /\ req'[p] # req[p]
Notified(p, outcomes) == req[p].op = "sendEmailNotification" /\ req[p].stage = "idle" /\ req[p].mail \in outcomes

Creates(p) == /\ req[p].op = "createTask" /\ req[p].stage = "insert" /\ req'[p].stage = "idle"
              /\ resp'.code = 201
NewLogs == DOMAIN logs' \ DOMAIN logs

\* C26: a successful createTask stores exactly one new log and changes no
\* other; the new log is created by the acting learner, its status is DRAFT
\* when the request names none and else the requested DRAFT or SUBMITTED,
\* submittedAt is set exactly when the status is SUBMITTED, and approvedById,
\* rejectedByID and rejectionReason are null.
C26_CreateStoresOneLog ==
    [][\A p \in Procs : Creates(p) =>
          /\ Cardinality(NewLogs) = 1
          /\ \A i \in DOMAIN logs : i \in DOMAIN logs' /\ logs'[i] = logs[i]
          /\ \A n \in NewLogs :
                /\ logs'[n].createdById = req[p].actor /\ users[req[p].actor] = "LEARNER"
                /\ logs'[n].status \in {"DRAFT", "SUBMITTED"}
                /\ logs'[n].status = (IF IsNull(req[p].body.status) THEN "DRAFT" ELSE Val(req[p].body.status))
                /\ ~IsNull(logs'[n].submittedAt) <=> logs'[n].status = "SUBMITTED"
                /\ IsNull(logs'[n].approvedById) /\ IsNull(logs'[n].rejectedByID) /\ IsNull(logs'[n].rejectionReason)]_vars

\* A create that named no status has just stored its log as a DRAFT.
C26_Witness ==
    /\ resp.op = "createTask" /\ resp.code = 201
    /\ \E l \in resp.ids : /\ l \in DOMAIN logs
                           /\ logs[l].status = "DRAFT" /\ IsNull(logs[l].submittedAt)
                           /\ hist[l] = <<[op |-> "create:DRAFT", by |-> logs[l].createdById]>>


ReviewColumns == {"status", "rejectionReason", "approvedById", "rejectedByID", "approvedAt", "rejectedAt", "submittedAt"}
Reviewed(row) == [c \in ReviewColumns |-> row[c]]
\* What each endpoint would store for log l, were it to act now
AfterApproveTask(t, l) == Reviewed(applyUpdate(logs[l], approveTaskData(t, now), {}, now))
AfterApproveCase(t, l) == Reviewed(applyUpdate(logs[l], approveCaseData(t, NULL), {"approvedAt"}, now))
AfterRejectTask(t, l) == Reviewed(applyUpdate(logs[l], rejectTaskData(t, ValidReason, now), {}, now))
AfterRejectCase(t, l) == Reviewed(applyUpdate(logs[l], rejectCaseData(ValidReason, NULL), {"rejectedAt"}, now))

\* C27: for every stored log and every user, approveTask and approveCase
\* accept the request in the same cases, namely for a teacher of the course
\* and a log that is SUBMITTED or RESUBMITTED, and store the same status,
\* rejectionReason, approvedById, rejectedByID and timestamps; likewise
\* rejectTask and rejectCase.
C27_EndpointsAgree ==
    \A l \in DOMAIN logs : \A t \in DOMAIN users :
        /\ approveTaskCheck(t, l).status = 0 <=> approveCaseCheck(t, l).status = 0
        /\ rejectTaskCheck(t, l, ValidReason).status = 0 <=> rejectCaseCheck(t, l, ValidReason).status = 0
        /\ (logs[l].status \in PendingStatuses /\ isCourseTeacher(logs[l], t)) =>
              /\ approveTaskCheck(t, l).status = 0 /\ approveCaseCheck(t, l).status = 0
              /\ rejectTaskCheck(t, l, ValidReason).status = 0 /\ rejectCaseCheck(t, l, ValidReason).status = 0
              /\ AfterApproveTask(t, l) = AfterApproveCase(t, l)
              /\ AfterRejectTask(t, l) = AfterRejectCase(t, l)


\* Case-number allocation together with DELETE /tasks/:id.  deleteTask
\* answers from its checks here: no stored id passes validateUUID, so the
\* handler never reaches prisma.log.delete.
NextCreateDelete == \E p \in Procs : \/ CreateTaskBegin(p, {"L1", "L2"}, AllocBodies, MaxAlloc)
                                      \/ GenerateCaseNo(p)
                                      \/ CreateTaskLookup(p)
                                      \/ CreateTaskInsert(p)
                                      \/ DeleteTaskBegin(p, {"L1", "L2"}, 0 .. MaxAlloc)

SpecCreateDelete == Init /\ [][NextCreateDelete]_vars

\* The createTask of p ends at this step and no other request is under way
\* or has inserted a row since it arrived.
EndsSequentially(p) == /\ RanAlone(p) /\ req[p].stage \in {"lookup", "insert"} /\ req'[p].stage = "idle"
                       /\ \A q \in Procs \ {p} : req[q].stage = "idle"
DuplicateCaseNoCodes == {409, handlePrismaError("P2002").status}

\* C28: a createTask that runs with no concurrent request, after any
\* sequence of creates and deletes, never ends with a duplicate case number
\* conflict, also when the course holds logs dated outside the current year.
C28_SequentialCreateNeverConflicts ==
    [][\A p \in Procs : EndsSequentially(p) => resp'.code \notin DuplicateCaseNoCodes]_vars


\* --------------------------------------------- roster sync, then review
\* GET /courses/enrolled (the roster sync), POST /tasks and
\* PUT /submissions/:id/approve and /reject of one deployment.
OwnRosters == {<<Entry("c3", <<>>)>>, <<Entry("c3", <<"T2">>)>>}

NextOwn == \E p \in Procs : \/ SyncBegin(p, Learners, OwnRosters)
                             \/ SyncCourse(p)
                             \/ SyncFindEnrollment(p)
                             \/ SyncCreateEnrollment(p)
                             \/ CreateTaskBegin(p, {"L1"}, CreateBodies({Some("DRAFT"), Some("SUBMITTED")}, {"c1", "c3"}, {ThisYear}), MaxLogs)
                             \/ GenerateCaseNo(p)
                             \/ CreateTaskLookup(p)
                             \/ CreateTaskInsert(p)
                             \/ ApproveCaseBegin(p, {"L1", "T1", "T2"}, RequestIds, {NULL})
                             \/ RejectCaseBegin(p, {"L1", "T1", "T2"}, RequestIds, {ValidRejection}, {NULL})
                             \/ PrismaLogWrite(p)

SpecOwn == Init /\ [][NextOwn]_vars

\* C29: the approvedById of a log, and the actor of every approve or reject
\* that was applied to it, is a TEACHER other than the log's creator.
C29_CreatorNeverReviews ==
    \A l \in DOMAIN logs :
        /\ ~IsNull(logs[l].approvedById) =>
              Val(logs[l].approvedById) # logs[l].createdById /\ users[Val(logs[l].approvedById)] = "TEACHER"
        /\ \A k \in DOMAIN hist[l] : hist[l][k].op \in ReviewOps =>
              hist[l][k].by # logs[l].createdById /\ users[hist[l][k].by] = "TEACHER"


SubmittedStatuses == {"SUBMITTED", "RESUBMITTED", "APPROVED", "REJECTED"}

\* C30: in every reachable state, also while the creator's updateTask runs
\* alongside a teacher's approve or reject, a log that is SUBMITTED,
\* RESUBMITTED, APPROVED or REJECTED has a submittedAt, and a log without
\* submittedAt is a DRAFT.
C30_SubmittedAtIffSubmitted ==
    \A l \in DOMAIN logs : /\ logs[l].status \in SubmittedStatuses => ~IsNull(logs[l].submittedAt)
                           /\ IsNull(logs[l].submittedAt) => logs[l].status = "DRAFT"


\* ------------------------------------------------------ unenrollFromCourse
\* The models of schema.prisma: the generated client has one delegate per
\* model, and prisma.task is not among them.
PrismaModels == {"User", "Course", "CourseTeacher", "CourseEnrollment", "CourseLog", "Log"}

\* prisma.task.count({where: {courseId, createdById}}): with no Task model
\* the expression throws a TypeError, which the handler's catch answers.
tasksCountThrows == "Task" \notin PrismaModels
tasksCount(courseId, learnerId) == Cardinality({i \in DOMAIN logs : logs[i].courseId = courseId /\ logs[i].createdById = learnerId})

\* What unenrollFromCourse answers before its delete: an error reply, or
\* "delete" when the handler goes on to courseEnrollment.delete.
unenrollFromCourseCheck(userId, courseId, learnerId) ==
    IF users[userId] = "TEACHER" THEN [status |-> 403, message |-> "Access denied"]
    ELSE IF ~isEnrolled(courseId, actualLearnerId(userId, learnerId)) THEN [status |-> 404, message |-> "Enrollment not found"]
    ELSE IF tasksCountThrows THEN [status |-> 500, message |-> "Failed to unenroll from course"]
    ELSE IF tasksCount(courseId, actualLearnerId(userId, learnerId)) > 0 THEN [status |-> 400, message |-> "Cannot unenroll from course with existing logs"]
    ELSE [status |-> 0, message |-> "delete"]

UnenrollFromCourse(p, actors, courseIds, learnerIds) ==
    /\ req[p].stage = "idle"
    /\ nreq < MaxReqs
    /\ nreq' = nreq + 1
    /\ \E userId \in actors, courseId \in courseIds, learnerId \in learnerIds :
          LET pair == <<courseId, actualLearnerId(userId, learnerId)>>
              check == unenrollFromCourseCheck(userId, courseId, learnerId)
          IN IF check.status # 0
             THEN /\ Reply(p, "unenrollFromCourse", userId, check.status, check.message, {pair})
                  /\ UNCHANGED enrollments
             ELSE /\ enrollments' = enrollments (-) SetToBag({pair})
                  /\ Reply(p, "unenrollFromCourse", userId, 200, "Successfully unenrolled from course", {pair})
    /\ UNCHANGED <<users, courses, logs, nextId, hist>>

\* Enrollment, createTask, updateTask with a courseId, and unenrollment.
\* The update bodies name stored courses only.
MoveBodies == UpdateBodies({NULL}, {NULL}, {NULL, Some("c1"), Some("c2")}, {NULL})

NextMove == \E p \in Procs : \/ EnrollInCourseBegin(p, {"L2"}, {"c1"}, {NULL})
                              \/ EnrollInCourseCreate(p)
                              \/ CreateTaskBegin(p, Learners, CreateBodies({Some("DRAFT")}, {"c1"}, {ThisYear}), MaxLogs)
                              \/ GenerateCaseNo(p)
                              \/ CreateTaskLookup(p)
                              \/ CreateTaskInsert(p)
                              \/ UpdateTaskBegin(p, Learners, RequestIds, MoveBodies)
                              \/ PrismaLogWrite(p)
                              \/ UnenrollFromCourse(p, {"L1", "L2", "T1", "A1"}, {"c1", "c2"}, {NULL, Some("L1")})

SpecMove == Init /\ [][NextMove]_vars

\* C31: every stored log belongs to a course its creator is enrolled in.
C31_LogsHaveEnrollment ==
    \A l \in DOMAIN logs : isEnrolled(logs[l].courseId, logs[l].createdById)


\* ------------------------------------------- bodies naming a case number
\* PUT /tasks/:id with a caseNo key in the JSON body, next to the review
\* endpoints.
OtherCaseNo == FormatCaseNo(CurrentYear, 2)
FrameBodies == [valid : {TRUE}, status : {NULL, Some("SUBMITTED")}, content : {NULL, Some(1)}, courseId : {NULL}, date : {NULL}, caseNo : {Some(OtherCaseNo)}]
                  \cup UpdateBodies({Some("RESUBMITTED")}, {NULL}, {NULL}, {NULL})

NextFrame == \E p \in Procs : \/ CreateTaskBegin(p, {"L1"}, CreateBodies({Some("DRAFT"), Some("SUBMITTED")}, {"c1"}, {ThisYear}), MaxLogs)
                               \/ GenerateCaseNo(p)
                               \/ CreateTaskLookup(p)
                               \/ CreateTaskInsert(p)
                               \/ UpdateTaskBegin(p, {"L1", "T1"}, RequestIds, FrameBodies)
                               \/ ApproveTaskBegin(p, {"T1"}, RequestIds)
                               \/ RejectTaskBegin(p, {"T1"}, RequestIds, {ValidReason})
                               \/ ApproveCaseBegin(p, {"T1"}, RequestIds, {NULL})
                               \/ RejectCaseBegin(p, {"T1"}, RequestIds, {ValidRejection}, {NULL})
                               \/ BulkApproveBegin(p, {"T1"}, IdSetInputs, {NULL})
                               \/ PrismaLogWrite(p)

SpecFrame == Init /\ [][NextFrame]_vars

\* C32: no step changes the createdById or the caseNo of a stored log.
C32_CreatorAndCaseNoFrozen ==
    [][\A l \in DOMAIN logs \cap DOMAIN logs' : /\ logs'[l].createdById = logs[l].createdById
                                                 /\ logs'[l].caseNo = logs[l].caseNo]_vars

\* An update whose body named another case number was applied, and so was
\* a review
C32_Witness ==
    \E l \in DOMAIN logs : /\ \E k \in DOMAIN hist[l] : hist[l][k].op \in ReviewOps \cup {"bulkApprove"}
                           /\ \E k \in DOMAIN hist[l] : hist[l][k].op \in {"updateTask", "update:SUBMITTED"}
                           /\ logs[l].content = 1
                           /\ logs[l].caseNo # OtherCaseNo


\* ------------------------------------------------------ dashboard pages
\* GET /submissions with page and limit, over the stored tables.
PageFilters ==
    {NoFilter,
     [NoFilter EXCEPT !.page = Some(1), !.limit = Some(1)],
     [NoFilter EXCEPT !.page = Some(2), !.limit = Some(1)],
     [NoFilter EXCEPT !.page = Some(2), !.limit = Some(2)],
     [NoFilter EXCEPT !.status = Some("DRAFT")],
     [NoFilter EXCEPT !.limit = Some(0)]}

NextPages == GetSubmissions("p1", {"T1", "A1"}, PageFilters)

SpecPages == InitDashboard /\ [][NextPages]_vars

Answered200(op) == resp.op = op /\ resp.code = 200
GroupKey(s) == <<s.learnerId, s.courseId>>
RECURSIVE SumTotalCases(_)
SumTotalCases(groups) == IF groups = {} THEN 0
                         ELSE LET g == CHOOSE x \in groups : TRUE IN g.totalCases + SumTotalCases(groups \ {g})

\* C33: in a getSubmissions answer every fetched row lies in exactly one
\* group, two groups never share their (createdById, courseId) key, and the
\* groups' totalCases add up to the number of rows fetched, at most limit.
C33_PageRowsPartitioned ==
    Answered200("getSubmissions") =>
        /\ \A l \in resp.ids : Cardinality({s \in resp.submissions : l \in Range(s.cases)}) = 1
        /\ \A s \in resp.submissions : Range(s.cases) \subseteq resp.ids /\ s.totalCases = Cardinality(Range(s.cases))
        /\ \A s, t \in resp.submissions : GroupKey(s) = GroupKey(t) => s = t
        /\ SumTotalCases(resp.submissions) = Cardinality(resp.ids)
        /\ Cardinality(resp.ids) <= resp.pagination.limit

\* The page boundary cuts a group: page 2 of limit 1 holds one case of a
\* learner and course whose other reviewable case is on another page.
C33_Witness ==
    /\ Answered200("getSubmissions") /\ resp.pagination.page = 2 /\ resp.pagination.limit = 1
    /\ \E s \in resp.submissions :
          /\ s.totalCases = 1
          /\ \E i \in DOMAIN logs \ resp.ids : /\ <<logs[i].createdById, logs[i].courseId>> = GroupKey(s)
                                               /\ logs[i].status # "DRAFT"


\* The rows the answer's pages are drawn from: the logs of the courses of
\* the teacher that pass the filter of the request, drafts excluded.  The
\* request of a 200 answer is read back from PageFilters by its page and
\* limit and its fetched rows.
Returnable(teacherId, f) == {i \in DOMAIN logs : submissionsWhere(i, teacherCourses(teacherId), f)}
RequestsOf(r) == {f \in PageFilters : /\ validatePagination(f.page, f.limit).ok
                                      /\ validatePagination(f.page, f.limit).page = r.pagination.page
                                      /\ validatePagination(f.page, f.limit).limit = r.pagination.limit
                                      /\ teacherCourses(r.teacherId) # {} =>
                                            /\ r.ids = Range(findManySubmissions(teacherCourses(r.teacherId), f, r.pagination.page, r.pagination.limit))
                                            /\ r.pagination.total = countSubmissions(teacherCourses(r.teacherId), f)}

\* C34: the total of a getSubmissions answer is the number of logs that
\* satisfy the predicate of the returned rows (the teacher's courses, the
\* filters, not DRAFT), and totalPages is that number over limit, rounded up.
C34_TotalCountsReturnableRows ==
    Answered200("getSubmissions") =>
        \A f \in RequestsOf(resp) :
            /\ resp.pagination.total = Cardinality(Returnable(resp.teacherId, f))
            /\ resp.pagination.totalPages = MathCeilDiv(Cardinality(Returnable(resp.teacherId, f)), resp.pagination.limit)


GroupStatuses == {"rejected", "pending", "approved"}

\* C35: every group of a getSubmissions answer holds at least one case and
\* no DRAFT case, its overall status is rejected, pending or approved, never
\* draft, and its totalCases is the sum of its approved, rejected and
\* pending counts.
C35_NoDraftGroup ==
    Answered200("getSubmissions") =>
        \A s \in resp.submissions : /\ s.totalCases >= 1
                                    /\ \A k \in DOMAIN s.cases : logs[s.cases[k]].status # "DRAFT"
                                    /\ s.status \in GroupStatuses
                                    /\ s.totalCases = s.approvedCases + s.rejectedCases + s.pendingCases

\* An answer with a group, from a table that also holds a DRAFT log of the
\* group's learner and course
C35_Witness ==
    /\ Answered200("getSubmissions")
    /\ \E s \in resp.submissions : \E i \in DOMAIN logs : /\ <<logs[i].createdById, logs[i].courseId>> = GroupKey(s)
                                                          /\ logs[i].status = "DRAFT"


\* ------------------------------------------------------------ bulk approval
\* POST /submissions/bulk-approve with arrays that repeat an id, name an
\* unknown id or exceed the limit, next to the creator's updateTask.
TooManyIds == [k \in 1 .. MaxBulk + 1 |-> 1]
BulkLists == {<<>>, <<1>>, <<1, 1>>, <<1, 2>>, <<2, 1>>, <<MaxLogs + 1>>, TooManyIds}

NextBulk == \E p \in Procs : \/ CreateTaskBegin(p, {"L1"}, CreateBodies({Some("DRAFT"), Some("SUBMITTED")}, {"c1", "c2"}, {ThisYear}), MaxLogs)
                              \/ GenerateCaseNo(p)
                              \/ CreateTaskLookup(p)
                              \/ CreateTaskInsert(p)
                              \/ UpdateTaskBegin(p, {"L1"}, RequestIds, UpdateBodies({Some("DRAFT"), Some("SUBMITTED")}, {NULL}, {NULL}, {NULL}))
                              \/ BulkApproveBegin(p, {"T1", "T2", "L1"}, BulkLists, {NULL})
                              \/ PrismaLogWrite(p)

SpecBulk == Init /\ [][NextBulk]_vars

\* Every entry of the array is a SUBMITTED log of a course whose teacher is
\* the requester, no id is listed twice, and the array has 1 to 50 entries.
BulkRequestValid(teacherId, caseIds) ==
    /\ Len(caseIds) \in 1 .. MaxBulk
    /\ \A j, k \in DOMAIN caseIds : caseIds[j] = caseIds[k] => j = k
    /\ \A k \in DOMAIN caseIds : /\ caseIds[k] \in DOMAIN logs
                                 /\ logs[caseIds[k]].status = "SUBMITTED"
                                 /\ courses[logs[caseIds[k]].courseId].teacherId = teacherId
\* A request was answered at its first step, and the answer is bulkApprove's
BulkRefused == req' = req /\ nreq' = nreq + 1 /\ resp'.op = "bulkApprove"
BulkApplied(p) == req[p].op = "bulkApprove" /\ req[p].stage = "write" /\ req'[p].stage = "idle"

====
